---------------------------- MODULE Spec2Model ----------------------------
(***************************************************************************)
(* A model of the table reconstruction engine of pdf-to-md:                *)
(*   src/src/converter/extractors/table/table_extractor.py  (the package   *)
(*       class TableExtractor, the one the converter imports), and         *)
(*   src/src/converter/extractors.py  (the older single-file class of the  *)
(*       same name; its operators carry the prefix Legacy).                *)
(*                                                                         *)
(* Text is modelled as it is in the program: a string is a sequence of     *)
(* one-character strings, and every regular expression of the source is    *)
(* transcribed into a small syntax tree that one matcher (Ends) evaluates. *)
(***************************************************************************)
EXTENDS Integers, Sequences, FiniteSets, TLC

(***************************************************************************)
(* Characters and character classes (Python's str and re semantics).       *)
(***************************************************************************)
Digit == {"0", "1", "2", "3", "4", "5", "6", "7", "8", "9"}
Upper == {"A", "B", "C", "D", "E", "F", "G", "H", "I", "J", "K", "L", "M",
          "N", "O", "P", "Q", "R", "S", "T", "U", "V", "W", "X", "Y", "Z"}
Lower == {"a", "b", "c", "d", "e", "f", "g", "h", "i", "j", "k", "l", "m",
          "n", "o", "p", "q", "r", "s", "t", "u", "v", "w", "x", "y", "z"}
Alpha == Upper \cup Lower
WordCh == Alpha \cup Digit \cup {"_"}
SpaceCh == {" ", "\t", "\n", "\r"}

UpperSeq == <<"A", "B", "C", "D", "E", "F", "G", "H", "I", "J", "K", "L", "M",
              "N", "O", "P", "Q", "R", "S", "T", "U", "V", "W", "X", "Y", "Z">>
LowerSeq == <<"a", "b", "c", "d", "e", "f", "g", "h", "i", "j", "k", "l", "m",
              "n", "o", "p", "q", "r", "s", "t", "u", "v", "w", "x", "y", "z">>

\* str.lower() of one character
LowerCh(c) ==
    IF c \in Upper
    THEN LowerSeq[CHOOSE i \in 1..26 : UpperSeq[i] = c]
    ELSE c

\* str.upper() of one character
UpperCh(c) ==
    IF c \in Lower
    THEN UpperSeq[CHOOSE i \in 1..26 : LowerSeq[i] = c]
    ELSE c

\* the list q as a tuple: its elements are computed once, here, and not at
\* every place that reads them
List(q) == SubSeq(q, 1, Len(q))

\* str.lower()
ToLower(s) == List([i \in 1..Len(s) |-> LowerCh(s[i])])

(***************************************************************************)
(* Arithmetic helpers.                                                     *)
(***************************************************************************)
Min2(a, b) == IF a <= b THEN a ELSE b
Max2(a, b) == IF a >= b THEN a ELSE b
SetMin(S) == CHOOSE x \in S : \A y \in S : x <= y
SetMax(S) == CHOOSE x \in S : \A y \in S : x >= y
Abs(n) == IF n < 0 THEN -n ELSE n

RECURSIVE SumSeq(_)
SumSeq(q) == IF q = <<>> THEN 0 ELSE q[1] + SumSeq(Tail(q))

\* max() and min() of a non-empty list of numbers
MaxSeq(q) == SetMax({q[i] : i \in 1..Len(q)})
MinSeq(q) == SetMin({q[i] : i \in 1..Len(q)})

\* Python's q[a:b] for 0 <= a, with b clipped to len(q)
Slice(q, a, b) ==
    IF a >= Min2(b, Len(q)) THEN <<>>
    ELSE SubSeq(q, a + 1, Min2(b, Len(q)))

(***************************************************************************)
(* Regular expressions.  A pattern is a record whose field k names its     *)
(* construct:                                                              *)
(*   set  one character of cs          nset one character not in cs        *)
(*   seq  the patterns rs in order     alt  one of the patterns rs         *)
(*   rep  r repeated lo..hi times (hi = -1: unbounded)                     *)
(*   lazy the same, preferring fewer repetitions                           *)
(*   bol  ^      eol  $      wb  \b                                        *)
(* Ends(r, s, i) is the set of offsets j such that r matches s[i+1..j].    *)
(* Offsets run from 0 to Len(s).                                           *)
(***************************************************************************)
RSet(cs) == [k |-> "set", cs |-> cs]
RNot(cs) == [k |-> "nset", cs |-> cs]
RSeq(rs) == [k |-> "seq", rs |-> rs]
RAlt(rs) == [k |-> "alt", rs |-> rs]
RRep(r, lo, hi) == [k |-> "rep", r |-> r, lo |-> lo, hi |-> hi]
\* the non-greedy repetition r{lo,hi}?
RLazy(r, lo, hi) == [k |-> "lazy", r |-> r, lo |-> lo, hi |-> hi]
RBol == [k |-> "bol"]
REol == [k |-> "eol"]
RWb == [k |-> "wb"]
RCh(c) == RSet({c})
ROpt(r) == RRep(r, 0, 1)
RStar(r) == RRep(r, 0, -1)
RPlus(r) == RRep(r, 1, -1)
\* a literal, given as its sequence of characters
RLit(cs) == RSeq(List([i \in 1..Len(cs) |-> RCh(cs[i])]))
\* a literal matched under re.IGNORECASE
RLitI(cs) ==
    RSeq(List([i \in 1..Len(cs) |-> RSet({LowerCh(cs[i]), UpperCh(cs[i])})]))

IsWordAt(s, p) == p >= 1 /\ p <= Len(s) /\ s[p] \in WordCh

RECURSIVE Ends(_, _, _)
RECURSIVE EndsSeq(_, _, _, _)
RECURSIVE EndsRep(_, _, _, _, _)
Ends(r, s, i) ==
    CASE r.k = "set" -> IF i < Len(s) /\ s[i + 1] \in r.cs THEN {i + 1} ELSE {}
      [] r.k = "seq" -> EndsSeq(r.rs, 1, s, {i})
      [] r.k = "nset" -> IF i < Len(s) /\ s[i + 1] \notin r.cs THEN {i + 1} ELSE {}
      [] r.k = "bol" -> IF i = 0 THEN {i} ELSE {}
      [] r.k = "eol" -> IF i = Len(s) THEN {i} ELSE {}
      [] r.k = "wb" -> IF IsWordAt(s, i) # IsWordAt(s, i + 1) THEN {i} ELSE {}
      [] r.k = "alt" -> UNION {Ends(r.rs[n], s, i) : n \in 1..Len(r.rs)}
      [] r.k \in {"rep", "lazy"} ->
            EndsRep(r, s, {i}, 0, IF r.lo = 0 THEN {i} ELSE {})

\* the offsets reached from the offsets I by the patterns rs[n], rs[n+1], ...
EndsSeq(rs, n, s, I) ==
    IF n > Len(rs) \/ I = {} THEN I
    ELSE EndsSeq(rs, n + 1, s, UNION {Ends(rs[n], s, i) : i \in I})

\* cur: offsets reached after exactly n repetitions; acc: offsets accepted
EndsRep(r, s, cur, n, acc) ==
    IF cur = {} \/ (r.hi # -1 /\ n >= r.hi) THEN acc
    ELSE LET nxt == UNION {Ends(r.r, s, i) \ {i} : i \in cur}
         IN EndsRep(r, s, nxt, n + 1,
                    IF n + 1 >= r.lo THEN acc \cup nxt ELSE acc)

\* re.match(r, s): a match at offset 0
ReMatch(r, s) == Ends(r, s, 0) # {}

\* the offsets at which a match of r starts
MatchStarts(r, s) == {i \in 0..Len(s) : Ends(r, s, i) # {}}

\* re.search(r, s): a match anywhere, that is, from some offset of s
RECURSIVE ReSearch(_, _)
ReSearch(r, s) ==
    CASE r.k = "seq" -> EndsSeq(r.rs, 1, s, 0..Len(s)) # {}
      [] r.k = "alt" -> \E n \in 1..Len(r.rs) : ReSearch(r.rs[n], s)
      [] OTHER -> \E i \in 0..Len(s) : Ends(r, s, i) # {}

\* the first offset from i on at which a match of r starts, or -1
RECURSIVE FirstStart(_, _, _)
FirstStart(r, s, i) ==
    IF i > Len(s) THEN -1
    ELSE IF Ends(r, s, i) # {} THEN i
    ELSE FirstStart(r, s, i + 1)

\* re.search(r, s).start(), or -1
SearchStart(r, s) == IF ReSearch(r, s) THEN FirstStart(r, s, 0) ELSE -1

(***************************************************************************)
(* The end of a match.  The matcher of re backtracks: it tries the         *)
(* alternatives of a pattern in order, a greedy repetition from the most   *)
(* repetitions down and a lazy one from the fewest up, and stops at the    *)
(* first way through.  Prio(r, s, i) lists the offsets at which a match of *)
(* r starting at i can end, in the order the matcher would reach them,     *)
(* each offset once; the match returned ends at the first.                 *)
(***************************************************************************)
\* the lists qs[1], qs[2], ... of offsets in one list, each offset where it
\* first occurs
FlatDistinct(qs) ==
    LET longest == MaxSeq(<<0>> \o [k \in 1..Len(qs) |-> Len(qs[k])])
        places == {a \in (1..Len(qs)) \X (1..longest) : a[2] <= Len(qs[a[1]])}
        lt(a, b) == a[1] < b[1] \/ (a[1] = b[1] /\ a[2] < b[2])
        val(a) == qs[a[1]][a[2]]
        firsts == {a \in places : \A b \in places : lt(b, a) => val(b) # val(a)}
    IN List([p \in 1..Cardinality(firsts) |->
                val(CHOOSE a \in firsts :
                        Cardinality({b \in firsts : lt(b, a)}) = p - 1)])

\* a repeated character class: the run of characters it can take is
\* given up one at a time, or taken one at a time when the repetition is lazy
PrioRun(r, s, i) ==
    LET stops == {j \in i..Len(s) : j = Len(s) \/ Ends(r.r, s, j) = {}}
        run == SetMin(stops) - i
        top == IF r.hi = -1 THEN run ELSE Min2(run, r.hi)
    IN List([k \in 1..(top - r.lo + 1) |->
                IF r.k = "lazy" THEN i + r.lo + k - 1 ELSE i + top - k + 1])

RECURSIVE Prio(_, _, _)
RECURSIVE PrioSeq(_, _, _, _)
RECURSIVE PrioRep(_, _, _, _)
Prio(r, s, i) ==
    CASE r.k \in {"set", "nset", "bol", "eol", "wb"} ->
            IF Ends(r, s, i) = {} THEN <<>>
            ELSE <<CHOOSE j \in Ends(r, s, i) : TRUE>>
      [] r.k = "seq" -> PrioSeq(r.rs, 1, s, <<i>>)
      [] r.k = "alt" -> FlatDistinct([n \in 1..Len(r.rs) |-> Prio(r.rs[n], s, i)])
      [] r.k \in {"rep", "lazy"} ->
            IF r.r.k \in {"set", "nset"} THEN PrioRun(r, s, i)
            ELSE PrioRep(r, s, i, 0)

\* the patterns rs[n], rs[n+1], ... from each of the offsets starts, in order
PrioSeq(rs, n, s, starts) ==
    IF n > Len(rs) \/ starts = <<>> THEN starts
    ELSE PrioSeq(rs, n + 1, s,
                 FlatDistinct([k \in 1..Len(starts) |-> Prio(rs[n], s, starts[k])]))

\* n repetitions done, standing at offset i
PrioRep(r, s, i, n) ==
    LET stop == IF n >= r.lo THEN <<i>> ELSE <<>>
        fwd == SelectSeq(Prio(r.r, s, i), LAMBDA e : e # i)
        more == IF r.hi # -1 /\ n >= r.hi THEN <<>>
                ELSE FlatDistinct([k \in 1..Len(fwd) |-> PrioRep(r, s, fwd[k], n + 1)])
    IN FlatDistinct(IF r.k = "lazy" THEN <<stop, more>> ELSE <<more, stop>>)

\* re.search(r, s): <<m.start(), m.end()>>, or <<>> when there is no match
SpanFrom(r, s, a, ends) ==
    IF a = -1 THEN <<>>
    ELSE <<a, IF Cardinality(ends) = 1 THEN CHOOSE e \in ends : TRUE
              ELSE Prio(r, s, a)[1]>>

SpanAt(r, s, a) == SpanFrom(r, s, a, Ends(r, s, a))

SearchSpan(r, s) == SpanAt(r, s, SearchStart(r, s))

(***************************************************************************)
(* str methods.                                                            *)
(***************************************************************************)
\* s.strip() is non-empty
NonBlank(s) == \E i \in 1..Len(s) : s[i] \notin SpaceCh

\* s.strip()
Strip(s) ==
    IF ~NonBlank(s) THEN <<>>
    ELSE LET a == SetMin({i \in 1..Len(s) : s[i] \notin SpaceCh})
             b == SetMax({i \in 1..Len(s) : s[i] \notin SpaceCh})
         IN SubSeq(s, a, b)

\* s.split(): the maximal runs of non-whitespace characters, in order
RECURSIVE SplitFrom(_, _)
SplitFrom(s, i) ==
    IF i > Len(s) THEN <<>>
    ELSE IF s[i] \in SpaceCh THEN SplitFrom(s, i + 1)
    ELSE LET stops == {j \in i..Len(s) : s[j] \in SpaceCh}
             e == IF stops = {} THEN Len(s) + 1 ELSE SetMin(stops)
         IN <<SubSeq(s, i, e - 1)>> \o SplitFrom(s, e)

Split(s) == SplitFrom(s, 1)

\* sep.join(parts)
RECURSIVE Join(_, _)
Join(sep, parts) ==
    IF parts = <<>> THEN <<>>
    ELSE IF Len(parts) = 1 THEN parts[1]
    ELSE parts[1] \o sep \o Join(sep, Tail(parts))

SP == <<" ">>

\* needle in s
Contains(s, needle) ==
    \E i \in 0..(Len(s) - Len(needle)) : SubSeq(s, i + 1, i + Len(needle)) = needle


\* the indices of lo..hi that satisfy P, ascending, as a list
RECURSIVE Ascending(_)
Ascending(S) ==
    IF S = {} THEN <<>>
    ELSE <<SetMin(S)>> \o Ascending(S \ {SetMin(S)})

\* q + [x] * n
RECURSIVE PadWith(_, _, _)
PadWith(q, x, n) == IF n <= 0 THEN q ELSE PadWith(Append(q, x), x, n - 1)

(***************************************************************************)
(* _split_by_word_groups: the word-based fallback splitter.                *)
(***************************************************************************)
\* r'^\d+\.?\d*[%]?$'
ReNumberWord ==
    RSeq(<<RBol, RPlus(RSet(Digit)), ROpt(RCh(".")), RStar(RSet(Digit)),
           ROpt(RCh("%")), REol>>)

\* r'^[A-Za-z]'
ReStartsWithLetter == RSeq(<<RBol, RSet(Alpha)>>)

\* r'\(\d{4}\)'
ReYearInParens == RSeq(<<RCh("("), RRep(RSet(Digit), 4, 4), RCh(")")>>)

\* r'^(?:[A-Z]{2,6}(?:-\d+)?|[A-Z][a-zA-Z]*(?:[A-Z][a-zA-Z]*){1,3}
\*      |[A-Za-z]+[-_]?\d+(?:\.\d+)*)' under re.IGNORECASE
ReTechnicalWord ==
    RSeq(<<RBol,
           RAlt(<<RSeq(<<RRep(RSet(Alpha), 2, 6),
                         ROpt(RSeq(<<RCh("-"), RPlus(RSet(Digit))>>))>>),
                  RSeq(<<RSet(Alpha), RStar(RSet(Alpha)),
                         RRep(RSeq(<<RSet(Alpha), RStar(RSet(Alpha))>>), 1, 3)>>),
                  RSeq(<<RPlus(RSet(Alpha)), ROpt(RSet({"-", "_"})),
                         RPlus(RSet(Digit)),
                         RStar(RSeq(<<RCh("."), RPlus(RSet(Digit))>>))>>)>>)>>)

EtAl == <<"e", "t", " ", "a", "l", ".">>

\* the four boundary indicators between word and next_word (lines 1549-1562)
IsWordBoundary(word, next_word) ==
    \/ ReMatch(ReNumberWord, word) /\ ReMatch(ReStartsWithLetter, next_word)
    \/ Contains(word, EtAl) /\ ~Contains(next_word, EtAl)
    \/ ReSearch(ReYearInParens, word) /\ ~ReSearch(ReYearInParens, next_word)
    \/ ReMatch(ReTechnicalWord, word) /\ ~ReMatch(ReTechnicalWord, next_word)

\* boundaries: i + 1 for every i in range(len(words) - 1) with an indicator
WordBoundaries(words) ==
    Ascending({i \in 1..(Len(words) - 1) : IsWordBoundary(words[i], words[i + 1])})

\* the splits added when fewer than target_columns - 1 boundaries were found
\* (lines 1572-1580): pos = (i + 1) * words_per_remaining for i in range(remaining)
RECURSIVE AddEvenSplits(_, _, _, _, _)
AddEvenSplits(selected, i, remaining_splits, words_per_remaining, nwords) ==
    IF i >= remaining_splits THEN selected
    ELSE LET pos == (i + 1) * words_per_remaining
             have == {selected[n] : n \in 1..Len(selected)}
         IN AddEvenSplits(
                IF pos < nwords /\ pos \notin have
                THEN Append(selected, pos) ELSE selected,
                i + 1, remaining_splits, words_per_remaining, nwords)

SelectedBoundaries(boundaries, nwords, target_columns) ==
    IF Len(boundaries) >= target_columns - 1
    THEN Slice(boundaries, 0, target_columns - 1)
    ELSE LET remaining_splits == target_columns - Len(boundaries) - 1
             all == IF remaining_splits > 0
                    THEN AddEvenSplits(boundaries, 0, remaining_splits,
                                       nwords \div (remaining_splits + 1), nwords)
                    ELSE boundaries
         IN Ascending({all[n] : n \in 1..Len(all)})

\* the columns cut at the selected boundaries (lines 1585-1595)
RECURSIVE ColumnsAtBoundaries(_, _, _, _)
ColumnsAtBoundaries(words, selected, n, start_idx) ==
    IF n > Len(selected)
    THEN IF start_idx < Len(words)
         THEN <<Join(SP, Slice(words, start_idx, Len(words)))>>
         ELSE <<>>
    ELSE IF start_idx < Len(words)
         THEN <<Join(SP, Slice(words, start_idx, selected[n]))>>
              \o ColumnsAtBoundaries(words, selected, n + 1, selected[n])
         ELSE ColumnsAtBoundaries(words, selected, n + 1, start_idx)

\* the even distribution of the words (lines 1599-1614)
RECURSIVE ColumnsEven(_, _, _, _)
ColumnsEven(words, target_columns, i, start_idx) ==
    IF i >= target_columns THEN <<>>
    ELSE LET words_per_col == Len(words) \div target_columns
             remainder == Len(words) % target_columns
             col_size == words_per_col + (IF i < remainder THEN 1 ELSE 0)
             end_idx == start_idx + col_size
         IN IF start_idx < Len(words)
            THEN <<Join(SP, Slice(words, start_idx, Min2(end_idx, Len(words))))>>
                 \o ColumnsEven(words, target_columns, i + 1, end_idx)
            ELSE <<<<>>>> \o ColumnsEven(words, target_columns, i + 1, start_idx)

\* _split_by_word_groups without its two padding loops (lines 1536-1537 and
\* 1617-1618): the words or columns are returned as found.
split_by_word_groups_unpadded(ln, target) ==
    LET words == Split(ln)
    IN IF words = <<>> THEN <<>>
       ELSE IF Len(words) <= target
       THEN words
       ELSE LET boundaries == WordBoundaries(words)
                cols == IF boundaries # <<>>
                        THEN ColumnsAtBoundaries(
                                 words,
                                 SelectedBoundaries(boundaries, Len(words), target),
                                 1, 0)
                        ELSE ColumnsEven(words, target, 0, 0)
            IN Slice(cols, 0, target)

\* _split_by_word_groups as it would be with one word for each column and
\* the words after them left out
split_by_word_groups_one_each(ln, target) ==
    IF Split(ln) = <<>> THEN <<>>
    ELSE Slice(PadWith(Split(ln), <<>>, target - Len(Split(ln))), 0, target)

split_by_word_groups(ln, target) ==
    LET words == Split(ln)
    IN IF words = <<>> THEN <<>>
       ELSE IF Len(words) <= target
       THEN PadWith(words, <<>>, target - Len(words))
       ELSE LET boundaries == WordBoundaries(words)
                cols == IF boundaries # <<>>
                        THEN ColumnsAtBoundaries(
                                 words,
                                 SelectedBoundaries(boundaries, Len(words), target),
                                 1, 0)
                        ELSE ColumnsEven(words, target, 0, 0)
            IN Slice(PadWith(cols, <<>>, target - Len(cols)), 0, target)


(***************************************************************************)
(* detect_numerical_patterns (lines 231-246).  The atom "+-" stands for    *)
(* the plus-minus sign U+00B1.                                             *)
(***************************************************************************)
ReDecimal == RSeq(<<RPlus(RSet(Digit)), RCh("."), RPlus(RSet(Digit))>>)

\* r'\d+\.\d+%'
ReNumPercent == RSeq(<<ReDecimal, RCh("%")>>)
\* r'\d+\.\d+±\d+\.\d+'
ReNumMeanStd == RSeq(<<ReDecimal, RCh("+-"), ReDecimal>>)
\* r'\d+\.\d+\s*[±]\s*\d+\.\d+'
ReNumMeanStdSpaced ==
    RSeq(<<ReDecimal, RStar(RSet(SpaceCh)), RCh("+-"), RStar(RSet(SpaceCh)), ReDecimal>>)
\* r'\d+\.\d{2,4}'
ReNumDecimals == RSeq(<<RPlus(RSet(Digit)), RCh("."), RRep(RSet(Digit), 2, 4)>>)
\* r'\d+[,]\d+'
ReNumComma == RSeq(<<RPlus(RSet(Digit)), RCh(","), RPlus(RSet(Digit))>>)
\* r'\b\d+[kKmM]\b'
ReNumSuffix == RSeq(<<RWb, RPlus(RSet(Digit)), RSet({"k", "K", "m", "M"}), RWb>>)

detect_numerical_patterns(text) ==
    \/ ReSearch(ReNumPercent, text)
    \/ ReSearch(ReNumMeanStd, text)
    \/ ReSearch(ReNumMeanStdSpaced, text)
    \/ ReSearch(ReNumDecimals, text)
    \/ ReSearch(ReNumComma, text)
    \/ ReSearch(ReNumSuffix, text)

(***************************************************************************)
(* Vocabulary patterns shared by the renderer, the title detector and the  *)
(* confidence scorer.                                                      *)
(***************************************************************************)
\* r'\b\w*<stem>\w*\b' for a literal stem
ReStem(stem) == RSeq(<<RWb, RStar(RSet(WordCh)), RLit(stem), RStar(RSet(WordCh)), RWb>>)

\* r'\b\w+(?:ness|ity|ance|ence|acy|ion)\b'
ReSuffixWord ==
    RSeq(<<RWb, RPlus(RSet(WordCh)),
           RAlt(<<RLit(<<"n", "e", "s", "s">>), RLit(<<"i", "t", "y">>),
                  RLit(<<"a", "n", "c", "e">>), RLit(<<"e", "n", "c", "e">>),
                  RLit(<<"a", "c", "y">>), RLit(<<"i", "o", "n">>)>>),
           RWb>>)

\* r'\b\w*dat\w*\b|\b\w*model\w*\b|\b\w*method\w*\b|\b\w*approach\w*\b'
ReMethodData ==
    RAlt(<<ReStem(<<"d", "a", "t">>), ReStem(<<"m", "o", "d", "e", "l">>),
           ReStem(<<"m", "e", "t", "h", "o", "d">>),
           ReStem(<<"a", "p", "p", "r", "o", "a", "c", "h">>)>>)

\* r'\b\w*dat\w*\b|\b\w*corp\w*\b|\b\w*bench\w*\b'
ReDataset ==
    RAlt(<<ReStem(<<"d", "a", "t">>), ReStem(<<"c", "o", "r", "p">>),
           ReStem(<<"b", "e", "n", "c", "h">>)>>)

\* r'\b[A-Z]{2,}\s+\d{4}\b'
ReDatasetYear ==
    RSeq(<<RWb, RRep(RSet(Upper), 2, -1), RPlus(RSet(SpaceCh)),
           RRep(RSet(Digit), 4, 4), RWb>>)

\* r'\b\w+[-_]\w+\b'
ReHyphenated ==
    RSeq(<<RWb, RPlus(RSet(WordCh)), RSet({"-", "_"}), RPlus(RSet(WordCh)), RWb>>)

\* r'\b[a-z]{4,12}\b'
ReMediumWord == RSeq(<<RWb, RRep(RSet(Lower), 4, 12), RWb>>)

(***************************************************************************)
(* _generate_smart_headers (lines 182-229).                                *)
(***************************************************************************)
\* r'\(.*\d{4}.*\)'
ReYearReference ==
    RSeq(<<RCh("("), RStar(RNot({"\n"})), RRep(RSet(Digit), 4, 4),
           RStar(RNot({"\n"})), RCh(")")>>)

\* r'\b[A-Za-z]+(?:[-_][A-ZaZ]+)*\b'  (the class [A-ZaZ] is the source's)
ReMethodName ==
    RSeq(<<RWb, RPlus(RSet(Alpha)),
           RStar(RSeq(<<RSet({"-", "_"}), RPlus(RSet(Upper \cup {"a"}))>>)), RWb>>)

\* r'\d+\.?\d*%|\b\w*acc\w*\b|\b\w*prec\w*\b'
ReAccuracy ==
    RAlt(<<RSeq(<<RPlus(RSet(Digit)), ROpt(RCh(".")), RStar(RSet(Digit)), RCh("%")>>),
           ReStem(<<"a", "c", "c">>), ReStem(<<"p", "r", "e", "c">>)>>)

\* r'\b\w*loss\w*\b|\b\w*err\w*\b'
ReLoss == RAlt(<<ReStem(<<"l", "o", "s", "s">>), ReStem(<<"e", "r", "r">>)>>)

\* r'\b\w*time\w*\b|\b\w*speed\w*\b|\bms\b|\bs\b'
ReTime ==
    RAlt(<<ReStem(<<"t", "i", "m", "e">>), ReStem(<<"s", "p", "e", "e", "d">>),
           RSeq(<<RWb, RLit(<<"m", "s">>), RWb>>), RSeq(<<RWb, RCh("s"), RWb>>)>>)

\* r'\b\w*arch\w*\b|\b\w*net\w*\b|\b\w*model\w*\b'
ReArchitecture ==
    RAlt(<<ReStem(<<"a", "r", "c", "h">>), ReStem(<<"n", "e", "t">>),
           ReStem(<<"m", "o", "d", "e", "l">>)>>)

\* r'\b\w*type\w*\b|\b\w*class\w*\b|\b\w*categ\w*\b'
ReType ==
    RAlt(<<ReStem(<<"t", "y", "p", "e">>), ReStem(<<"c", "l", "a", "s", "s">>),
           ReStem(<<"c", "a", "t", "e", "g">>)>>)

\* str(n) for n >= 0
RECURSIVE IntStr(_)
IntStr(n) ==
    LET d == <<"0", "1", "2", "3", "4", "5", "6", "7", "8", "9">>
    IN IF n < 10 THEN <<d[n + 1]>> ELSE IntStr(n \div 10) \o <<d[(n % 10) + 1]>>

\* f"Column {n}"
StrColumnN(n) == <<"C", "o", "l", "u", "m", "n", " ">> \o IntStr(n)

\* the stripped non-blank cells of column col_idx (0-based)
ColumnValues(table_data, col_idx) ==
    LET cells == [r \in 1..Len(table_data) |->
                    IF col_idx < Len(table_data[r])
                    THEN Strip(table_data[r][col_idx + 1]) ELSE <<>>]
    IN SelectSeq(cells, LAMBDA c : c # <<>>)

SmartHeader(table_data, col_idx) ==
    LET column_values == ColumnValues(table_data, col_idx)
        column_text == ToLower(Join(SP, column_values))
        AnyValue(r) == \E n \in 1..Len(column_values) : ReSearch(r, column_values[n])
    IN IF column_values = <<>> THEN StrColumnN(col_idx + 1)
       ELSE IF col_idx = 0
       THEN IF AnyValue(ReYearReference)
            THEN <<"R", "e", "f", "e", "r", "e", "n", "c", "e">>
            ELSE IF AnyValue(ReMethodName)
            THEN <<"M", "e", "t", "h", "o", "d">>
            ELSE <<"A", "p", "p", "r", "o", "a", "c", "h">>
       ELSE IF detect_numerical_patterns(column_text)
       THEN IF ReSearch(ReAccuracy, column_text)
            THEN <<"A", "c", "c", "u", "r", "a", "c", "y">>
            ELSE IF ReSearch(ReLoss, column_text)
            THEN <<"L", "o", "s", "s">>
            ELSE IF ReSearch(ReTime, column_text)
            THEN <<"T", "i", "m", "e">>
            ELSE <<"M", "e", "t", "r", "i", "c">>
       ELSE IF ReSearch(ReDataset, column_text)
            THEN <<"D", "a", "t", "a", "s", "e", "t">>
            ELSE IF ReSearch(ReArchitecture, column_text)
            THEN <<"A", "r", "c", "h", "i", "t", "e", "c", "t", "u", "r", "e">>
            ELSE IF ReSearch(ReType, column_text)
            THEN <<"T", "y", "p", "e">>
            ELSE StrColumnN(col_idx + 1)

generate_smart_headers(table_data, max_cols) ==
    [c \in 1..max_cols |-> SmartHeader(table_data, c - 1)]

(***************************************************************************)
(* convert_table_to_markdown (lines 48-180).  A table is the dict of the   *)
(* source: a record with the fields data (rows of cells), region_id,       *)
(* confidence (hundredths) and type.                                       *)
(***************************************************************************)
\* int(digits) for a string of digits
RECURSIVE DigitsValue(_)
DigitsValue(ds) ==
    IF ds = <<>> THEN 0
    ELSE 10 * DigitsValue(SubSeq(ds, 1, Len(ds) - 1))
         + (CHOOSE v \in 0..9 : IntStr(v) = <<ds[Len(ds)]>>)

\* n written with at least w digits
ZeroPadded(n, w) ==
    LET ds == IntStr(n)
    IN PadWith(<<>>, "0", w - Len(ds)) \o ds

\* f"{v:.{prec}f}" for the value scaled / 10^prec
FixedPoint(scaled, prec) ==
    LET pow == IF prec = 2 THEN 100 ELSE 1000
    IN IntStr(scaled \div pow) \o <<".">> \o ZeroPadded(scaled % pow, prec)

\* f"{confidence:.2f}" for a confidence given as num/den, rounded half to even
FormatConfidence(conf) ==
    LET twice == 200 * conf.num
        q == twice \div (2 * conf.den)
        r == twice % (2 * conf.den)
        up == r > conf.den \/ (r = conf.den /\ q % 2 = 1)
    IN FixedPoint(IF up THEN q + 1 ELSE q, 2)

\* r'^\d+\.\d+$'
RePlainDecimal == RSeq(<<RBol, ReDecimal, REol>>)

\* lines 163-172: a plain decimal below 1 is written with 3 decimals, any
\* other with 2; digits beyond are rounded.  A tail of exactly one half is
\* rounded to even, which is what Python does when the double holds the
\* cell exactly (0.0625); for other such cells (12.345) Python rounds the
\* nearest double, and no cell drawn by the specifications has such a tail.
FormatCell(cleaned) ==
    IF ~ReMatch(RePlainDecimal, cleaned) THEN cleaned
    ELSE LET dot == CHOOSE i \in 1..Len(cleaned) : cleaned[i] = "."
             int_part == SubSeq(cleaned, 1, dot - 1)
             frac == SubSeq(cleaned, dot + 1, Len(cleaned))
             prec == IF DigitsValue(int_part) < 1 THEN 3 ELSE 2
             kept == SubSeq(PadWith(frac, "0", prec - Len(frac)), 1, prec)
             tail == IF Len(frac) > prec THEN SubSeq(frac, prec + 1, Len(frac)) ELSE <<>>
             tailv == DigitsValue(tail)
             RECURSIVE Pow10(_)
             Pow10(n) == IF n = 0 THEN 1 ELSE 10 * Pow10(n - 1)
             half == 5 * Pow10(Len(tail) - 1)
             base == DigitsValue(int_part \o kept)
             up == tail # <<>> /\ (tailv > half \/ (tailv = half /\ base % 2 = 1))
         IN FixedPoint(IF up THEN base + 1 ELSE base, prec)

\* re.sub(r'[|\n\r]', ' ', str(cell)).strip()
CleanCell(cell) ==
    Strip([i \in 1..Len(cell) |-> IF cell[i] \in {"|", "\n", "\r"} THEN " " ELSE cell[i]])

\* cleaned.replace('|', '\\|')
EscapePipes(cleaned) ==
    LET RECURSIVE Esc(_)
        Esc(q) == IF q = <<>> THEN <<>>
                  ELSE (IF q[1] = "|" THEN <<"\\", "|">> ELSE <<q[1]>>) \o Esc(Tail(q))
    IN Esc(cleaned)

\* "| " + " | ".join(cells) + " |"
MarkdownRow(cells) == <<"|", " ">> \o Join(<<" ", "|", " ">>, cells) \o <<" ", "|">>

\* NormalizeRows without the padding of lines 91-92
NormalizeRows_unpadded(working_data, max_cols) ==
    [r \in 1..Len(working_data) |-> Slice(working_data[r], 0, max_cols)]

\* lines 88-94: each row padded with "" and truncated to max_cols
NormalizeRows(working_data, max_cols) ==
    [r \in 1..Len(working_data) |->
        Slice(PadWith(working_data[r], <<>>, max_cols - Len(working_data[r])), 0, max_cols)]

\* lines 72-76: the first row with at least 70% of max_cols cells
ActualTableStart(table_data, max_cols) ==
    LET ok == {i \in 1..Len(table_data) : 10 * Len(table_data[i]) >= 7 * max_cols}
    IN IF ok = {} THEN 0 ELSE SetMin(ok) - 1

\* lines 104-115
HasHeaderPatterns(header) ==
    LET first_row_text == ToLower(Join(SP, header))
    IN \/ ReSearch(ReMediumWord, first_row_text)
       \/ ReSearch(ReMethodData, first_row_text)
       \/ ReSearch(ReSuffixWord, first_row_text)
       \/ ReSearch(ReDatasetYear, first_row_text)
       \/ ReSearch(ReHyphenated, first_row_text)

\* lines 117: the first row is kept as the header
FirstRowIsHeader(header) ==
    /\ \E i \in 1..Len(header) : NonBlank(header[i])
    /\ HasHeaderPatterns(header)

\* lines 124-133
CleanHeaderCell(cell, i) ==
    LET cleaned == CleanCell(cell)
        named == IF cleaned = <<>> THEN StrColumnN(i) ELSE cleaned
    IN <<UpperCh(named[1])>> \o Tail(named)

\* lines 138-149
Separator(data_rows, i) ==
    LET column_values == [r \in 1..Len(data_rows) |->
                            IF i <= Len(data_rows[r]) THEN data_rows[r][i] ELSE <<>>]
    IN IF detect_numerical_patterns(Join(SP, column_values))
       THEN <<"-", "-", "-", ":">> ELSE <<"-", "-", "-">>

\* f"\n**Table {table_num}** *(confidence: {confidence:.2f}, type: {table_type})*"
Caption(table) ==
    <<"\n", "*", "*", "T", "a", "b", "l", "e", " ">> \o IntStr(table.region_id + 1)
    \o <<"*", "*", " ", "*", "(", "c", "o", "n", "f", "i", "d", "e", "n", "c", "e", ":", " ">>
    \o FormatConfidence(table.confidence)
    \o <<",", " ", "t", "y", "p", "e", ":", " ">> \o table.type \o <<")", "*">>

\* NormalizedData without the early return of lines 67-68
NormalizedData_unguarded(table_data) ==
    IF table_data = <<>> THEN <<>>
    ELSE LET all_cols == MaxSeq([r \in 1..Len(table_data) |-> Len(table_data[r])])
             working_data ==
                 Slice(table_data, ActualTableStart(table_data, all_cols), Len(table_data))
             max_cols == Max2(2, MaxSeq([r \in 1..Len(working_data) |->
                                            Len(working_data[r])]))
         IN NormalizeRows(working_data, max_cols)

\* The normalized rows the renderer works on (lines 65-94); <<>> when it
\* returns early.
NormalizedData(table_data) ==
    IF table_data = <<>> THEN <<>>
    ELSE LET all_cols == MaxSeq([r \in 1..Len(table_data) |-> Len(table_data[r])])
         IN IF all_cols = 0 THEN <<>>
            ELSE LET working_data ==
                         Slice(table_data, ActualTableStart(table_data, all_cols),
                               Len(table_data))
                     max_cols == Max2(2, MaxSeq([r \in 1..Len(working_data) |->
                                                    Len(working_data[r])]))
                 IN NormalizeRows(working_data, max_cols)

\* The lines of the rendering: caption, blank, header, separators, data rows
\* and a closing blank line.
MarkdownLines(table) ==
    LET normalized_data == NormalizedData(table.data)
        max_cols == Len(normalized_data[1])
        keep == FirstRowIsHeader(normalized_data[1])
        header == IF keep THEN normalized_data[1]
                  ELSE generate_smart_headers(normalized_data, max_cols)
        data_rows == IF keep THEN Tail(normalized_data) ELSE normalized_data
        clean_header == [i \in 1..Len(header) |-> CleanHeaderCell(header[i], i)]
        separators == [i \in 1..Len(clean_header) |-> Separator(data_rows, i)]
        clean_rows == [r \in 1..Len(data_rows) |->
                         MarkdownRow([i \in 1..Len(data_rows[r]) |->
                             FormatCell(EscapePipes(CleanCell(data_rows[r][i])))])]
    IN <<Caption(table), <<>>, MarkdownRow(clean_header), MarkdownRow(separators)>>
       \o clean_rows \o <<<<>>>>

\* A cell that is not a str (the renderer passes cells through str(cell), so
\* it expects them): Python's None.
NoneCell == <<"None">>

\* str(cell)
Str(cell) == IF cell = NoneCell THEN <<"N", "o", "n", "e">> ELSE cell

\* The call raises: ' '.join(header) (line 103), row[col_idx].strip() (line
\* 191) or ' '.join(column_values) (line 144) meets a cell that is not a
\* str.  Every cell of the normalized rows goes through one of them.
ConvertRaises(table) ==
    LET normalized_data == NormalizedData(table.data)
    IN \E r \in 1..Len(normalized_data) :
          \E i \in 1..Len(normalized_data[r]) : normalized_data[r][i] = NoneCell

\* line 90, normalized_row = list(row): the rows are padded on copies, and
\* the table handed in is what it was
TableAfterRender_aliased(table) ==
    IF table.data = <<>> THEN table
    ELSE LET all_cols == MaxSeq([r \in 1..Len(table.data) |-> Len(table.data[r])])
             start == ActualTableStart(table.data, all_cols)
             max_cols == Max2(2, all_cols)
         IN IF all_cols = 0 THEN table
            ELSE [table EXCEPT !.data =
                     [r \in 1..Len(table.data) |->
                         IF r > start
                         THEN PadWith(table.data[r], <<>>, max_cols - Len(table.data[r]))
                         ELSE table.data[r]]]

TableAfterRender(table) == table

\* the value returned: "" or "\n".join(markdown_lines)
convert_table_to_markdown(table) ==
    IF NormalizedData(table.data) = <<>> THEN <<>>
    ELSE Join(<<"\n">>, MarkdownLines(table))

(***************************************************************************)
(* The renderer of extractors.py (lines 1018-1083).                        *)
(***************************************************************************)
\* lines 1036-1045
LegacyNormalizedData(table_data) ==
    IF table_data = <<>> THEN <<>>
    ELSE LET max_cols == MaxSeq([r \in 1..Len(table_data) |-> Len(table_data[r])])
         IN IF max_cols = 0 THEN <<>>
            ELSE NormalizeRows(table_data, max_cols)

\* line 1049, any(h.strip() for h in header): TRUE at the first cell that is
\* not blank
LegacyHeaderGiven(header) ==
    \E i \in 1..Len(header) : header[i] # NoneCell /\ NonBlank(header[i])

\* line 1049 raises at a cell that is not a str, unless a cell before it
\* has ended the any()
LegacyConvertRaises(table) ==
    LET normalized_data == LegacyNormalizedData(table.data)
    IN /\ normalized_data # <<>>
       /\ \E i \in 1..Len(normalized_data[1]) :
             /\ normalized_data[1][i] = NoneCell
             /\ \A j \in 1..(i - 1) : /\ normalized_data[1][j] # NoneCell
                                      /\ ~NonBlank(normalized_data[1][j])

\* lines 1047-1081
LegacyMarkdownLines(table) ==
    LET normalized_data == LegacyNormalizedData(table.data)
        max_cols == Len(normalized_data[1])
        keep == LegacyHeaderGiven(normalized_data[1])
        header == IF keep THEN normalized_data[1]
                  ELSE [i \in 1..max_cols |-> <<"C", "o", "l">> \o IntStr(i)]
        data_rows == IF keep THEN Tail(normalized_data) ELSE normalized_data
        clean_header == [i \in 1..Len(header) |->
                           LET cleaned == CleanCell(Str(header[i]))
                           IN IF cleaned = <<>> THEN <<"C", "o", "l", "u", "m", "n">>
                              ELSE cleaned]
        separators == [i \in 1..Len(clean_header) |-> <<"-", "-", "-">>]
        clean_rows == [r \in 1..Len(data_rows) |->
                         MarkdownRow([i \in 1..Len(data_rows[r]) |->
                             EscapePipes(CleanCell(Str(data_rows[r][i])))])]
    IN <<Caption(table), <<>>, MarkdownRow(clean_header), MarkdownRow(separators)>>
       \o clean_rows \o <<<<>>>>

LegacyConvertTableToMarkdown(table) ==
    IF LegacyNormalizedData(table.data) = <<>> THEN <<>>
    ELSE Join(<<"\n">>, LegacyMarkdownLines(table))

(***************************************************************************)
(* Confidence values.  The program computes them in floating point; the   *)
(* model keeps them exact, as fractions num/den in lowest terms, so that  *)
(* a comparison with a threshold is decided as the real numbers decide it.*)
(***************************************************************************)
RECURSIVE Gcd(_, _)
Gcd(a, b) == IF b = 0 THEN a ELSE Gcd(b, a % b)

Rat(n, d) == LET g == Gcd(Abs(n), d) IN [num |-> n \div g, den |-> d \div g]
RatAdd(a, b) == Rat(a.num * b.den + b.num * a.den, a.den * b.den)
RatLe(a, b) == a.num * b.den <= b.num * a.den
RatMin(a, b) == IF RatLe(a, b) THEN a ELSE b

RECURSIVE RatSum(_)
RatSum(q) == IF q = <<>> THEN Rat(0, 1) ELSE RatAdd(q[1], RatSum(Tail(q)))

(***************************************************************************)
(* The page detectors (lines 249-332 and 1684-1939).  A page is what       *)
(* page.get_text("dict") and page.get_drawings() give: the lines of the    *)
(* blocks in document order, each a sequence of spans with a text and the  *)
(* x and y of its bbox, and the drawings.                                  *)
(***************************************************************************)
\* list.sort(key=lambda b: b[field]): stable
SortedBy(q, field) ==
    LET before(i) == Cardinality({j \in 1..Len(q) :
                        \/ q[j][field] < q[i][field]
                        \/ (q[j][field] = q[i][field] /\ j < i)})
    IN List([p \in 1..Len(q) |-> q[CHOOSE i \in 1..Len(q) : before(i) = p - 1]])

RECURSIVE Concat(_)
Concat(qs) == IF qs = <<>> THEN <<>> ELSE qs[1] \o Concat(Tail(qs))

\* len(re.findall(r, s)) for a pattern that matches no empty string and
\* whose greedy match is its longest
RECURSIVE FindAllCountFrom(_, _, _)
FindAllCountFrom(r, s, i) ==
    IF i >= Len(s) THEN 0
    ELSE LET e == Ends(r, s, i)
         IN IF e = {} THEN FindAllCountFrom(r, s, i + 1)
            ELSE 1 + FindAllCountFrom(r, s, SetMax(e))

FindAllCount(r, s) == FindAllCountFrom(r, s, 0)

\* r'\d+\.?\d*'
ReNumber == RSeq(<<RPlus(RSet(Digit)), ROpt(RCh(".")), RStar(RSet(Digit))>>)

\* _looks_like_table_row (lines 572-589)
looks_like_table_row(ln) ==
    LET stripped == Strip(ln)
        any == RNot({"\n"})
        has_multiple_numbers == FindAllCount(ReNumber, ln) >= 2
        has_method_name ==
            ReMatch(RSeq(<<RSet(Alpha), RPlus(RSet(WordCh \cup {"-"}))>>), stripped)
        has_citations ==
            ReSearch(RAlt(<<RSeq(<<RCh("["), RStar(any), RCh("]")>>),
                            RSeq(<<RCh("("), RRep(RSet(Digit), 4, 4), RCh(")")>>)>>), ln)
        has_percentages == ReSearch(RSeq(<<ReNumber, RCh("%")>>), ln)
        word_count_reasonable == 3 <= Len(Split(ln)) /\ Len(Split(ln)) <= 20
        has_mixed_content ==
            ReSearch(RAlt(<<RSeq(<<RSet(Alpha), RStar(any), RPlus(RSet(Digit))>>),
                            RSeq(<<RPlus(RSet(Digit)), RStar(any), RSet(Alpha)>>)>>), ln)
        indicators == <<has_multiple_numbers, has_method_name, has_citations,
                        has_percentages, word_count_reasonable, has_mixed_content>>
    IN /\ Len(stripped) >= 5
       /\ Cardinality({n \in 1..6 : indicators[n]}) >= 2

\* span.get("bbox", [0, 0, 0, 0]) (lines 1699-1701 and 1807-1808); <<>> is
\* the bbox of a span without the key
BBoxOrDefault(span) == IF span.bbox = <<>> THEN <<0, 0, 0, 0>> ELSE span.bbox

\* the text, x and y that the detectors read from a span
SpanRead(span) ==
    [text |-> span.text, x |-> BBoxOrDefault(span)[1], y |-> BBoxOrDefault(span)[2]]

\* the page with every span as the detectors read it
PageRead(dict_page_) ==
    [lines |-> [n \in 1..Len(dict_page_.lines) |->
                   [i \in 1..Len(dict_page_.lines[n]) |-> SpanRead(dict_page_.lines[n][i])]],
     drawings |-> dict_page_.drawings]

\* _identify_grid_regions, lines 1689-1703: the spans with text
TextBlocks(page) ==
    SelectSeq(Concat(page.lines), LAMBDA span : NonBlank(span.text))

\* lines 1712-1724: blocks within 10 of the first block of the row join
\* the row; a row of one block is dropped
RECURSIVE GroupRows(_, _, _)
GroupRows(blocks, current_row, rows) ==
    LET closed == IF Len(current_row) > 1 THEN Append(rows, current_row) ELSE rows
    IN IF blocks = <<>> THEN closed
       ELSE IF Abs(blocks[1].y - current_row[1].y) <= 10
            THEN GroupRows(Tail(blocks), Append(current_row, blocks[1]), rows)
            ELSE GroupRows(Tail(blocks), <<blocks[1]>>, closed)

\* _identify_grid_regions (lines 1684-1730)
identify_grid_regions(page) ==
    LET text_blocks == SortedBy(TextBlocks(page), "y")
        rows == IF text_blocks = <<>> THEN <<>>
                ELSE GroupRows(Tail(text_blocks), <<text_blocks[1]>>, <<>>)
    IN IF Len(rows) >= 2 THEN <<rows>> ELSE <<>>

\* _analyze_grid_structure (lines 1732-1744)
analyze_grid_structure(region) ==
    LET row_data(row) ==
            LET sorted == SelectSeq(SortedBy(row, "x"), LAMBDA b : NonBlank(b.text))
            IN [i \in 1..Len(sorted) |-> Strip(sorted[i].text)]
    IN SelectSeq([r \in 1..Len(region) |-> row_data(region[r])],
                 LAMBDA rd : rd # <<>>)

\* _validate_table_structure (lines 1746-1758): at least 70% of the rows are
\* within 2 of the average cell count
validate_table_structure(table_data) ==
    /\ Len(table_data) >= 2
    /\ LET n == Len(table_data)
           total == SumSeq([r \in 1..n |-> Len(table_data[r])])
           consistent_rows ==
               Cardinality({r \in 1..n : Abs(n * Len(table_data[r]) - total) <= 2 * n})
       IN 10 * consistent_rows >= 7 * n

\* the factor min(numeric_ratio * 2, 1.0) without its cap
NumericFactor_uncapped(numeric_content, total_cells) ==
    Rat(2 * numeric_content, total_cells)

\* line 1786
NumericFactor(numeric_content, total_cells) ==
    RatMin(Rat(2 * numeric_content, total_cells), Rat(1, 1))

\* _calculate_table_confidence (lines 1760-1788)
calculate_table_confidence(table_data) ==
    IF table_data = <<>> THEN Rat(0, 1)
    ELSE LET col_counts == [r \in 1..Len(table_data) |-> Len(table_data[r])]
             max_cols == MaxSeq(col_counts)
             min_cols == MinSeq(col_counts)
             consistency == IF max_cols > 0 THEN Rat(min_cols, max_cols) ELSE Rat(0, 1)
             total_cells == SumSeq(col_counts)
             cells == Concat(table_data)
             non_empty_cells == Cardinality({i \in 1..Len(cells) : NonBlank(cells[i])})
             density == IF total_cells > 0 THEN Rat(non_empty_cells, total_cells)
                        ELSE Rat(0, 1)
             numeric_content ==
                 Cardinality({i \in 1..Len(cells) : ReSearch(ReNumber, cells[i])})
             numeric == IF total_cells > 0 THEN NumericFactor(numeric_content, total_cells)
                        ELSE Rat(0, 1)
             total == RatSum(<<consistency, density, numeric>>)
         IN Rat(total.num, 3 * total.den)

\* _get_region_bbox, _get_text_region_bbox, _get_grid_bbox (lines 1218-1228)
StubBBox == <<0, 0, 0, 0>>

\* _extract_bbox_tables (lines 249-275)
extract_bbox_tables(page, page_num) ==
    LET table_regions == identify_grid_regions(page)
        candidate(region_idx) ==
            LET table_data == analyze_grid_structure(table_regions[region_idx])
            IN IF table_data # <<>> /\ validate_table_structure(table_data)
               THEN <<[type |-> <<"b", "b", "o", "x", "_", "g", "r", "i", "d">>,
                       page |-> page_num, region_id |-> region_idx - 1,
                       data |-> table_data,
                       confidence |-> calculate_table_confidence(table_data),
                       bbox |-> StubBBox]>>
               ELSE <<>>
    IN Concat([n \in 1..Len(table_regions) |-> candidate(n)])

\* _get_structured_text_lines (lines 1790-1821): the text of a line is its
\* spans with text, each followed by a space, stripped; its y is the y of
\* the first of them
get_structured_text_lines(page) ==
    LET line_of(spans) ==
            LET shown == SelectSeq(spans, LAMBDA span : NonBlank(span.text))
                line_text == Strip(Concat([i \in 1..Len(shown) |-> shown[i].text \o SP]))
            IN IF line_text = <<>> THEN <<>>
               ELSE <<[text |-> line_text, y |-> shown[1].y]>>
    IN Concat([n \in 1..Len(page.lines) |-> line_of(page.lines[n])])

\* _find_aligned_text_regions, lines 1837-1857
RECURSIVE GroupAligned(_, _, _, _)
GroupAligned(text_lines, current_region, prev_y, regions) ==
    LET closed == IF Len(current_region) >= 3 THEN Append(regions, current_region)
                  ELSE regions
    IN IF text_lines = <<>> THEN closed
       ELSE LET ln == text_lines[1]
            IN IF looks_like_table_row(ln.text)
               THEN IF prev_y = <<>> \/ Abs(ln.y - prev_y[1]) < 50
                    THEN GroupAligned(Tail(text_lines), Append(current_region, ln),
                                      <<ln.y>>, regions)
                    ELSE GroupAligned(Tail(text_lines), <<ln>>, <<ln.y>>, closed)
               ELSE GroupAligned(Tail(text_lines), <<>>, <<>>, closed)

\* _find_aligned_text_regions (lines 1823-1859)
find_aligned_text_regions(text_lines) ==
    GroupAligned(SortedBy(text_lines, "y"), <<>>, <<>>, <<>>)

\* text.split(sep) for a separator of one character
RECURSIVE SplitAt(_, _)
SplitAt(s, sep) ==
    IF \A i \in 1..Len(s) : s[i] # sep THEN <<s>>
    ELSE LET at == SetMin({i \in 1..Len(s) : s[i] = sep})
         IN <<SubSeq(s, 1, at - 1)>> \o SplitAt(SubSeq(s, at + 1, Len(s)), sep)

\* re.split(r'\s{2,}', text)
RECURSIVE SplitOnGaps(_)
SplitOnGaps(s) ==
    LET gaps == {i \in 1..(Len(s) - 1) : s[i] \in SpaceCh /\ s[i + 1] \in SpaceCh}
    IN IF gaps = {} THEN <<s>>
       ELSE LET at == SetMin(gaps)
                rest == SubSeq(s, at, Len(s))
                run == SetMin({k \in 1..(Len(rest) + 1) :
                                  k > Len(rest) \/ rest[k] \notin SpaceCh}) - 1
            IN <<SubSeq(s, 1, at - 1)>> \o SplitOnGaps(SubSeq(rest, run + 1, Len(rest)))

\* _parse_aligned_table (lines 1861-1880)
parse_aligned_table(region) ==
    LET row_data(text) ==
            LET parts == IF Contains(text, <<"\t">>) THEN SplitAt(text, "\t")
                         ELSE SplitOnGaps(text)
                kept == SelectSeq(parts, NonBlank)
            IN [i \in 1..Len(kept) |-> Strip(kept[i])]
        rows == [n \in 1..Len(region) |->
                    IF looks_like_table_row(region[n].text)
                    THEN row_data(region[n].text) ELSE <<>>]
    IN SelectSeq(rows, LAMBDA rd : rd # <<>>)

\* _calculate_alignment_confidence (lines 1882-1889)
calculate_alignment_confidence(region) ==
    IF region = <<>> THEN Rat(0, 1)
    ELSE calculate_table_confidence(parse_aligned_table(region))

\* _extract_alignment_tables (lines 277-301)
extract_alignment_tables(page, page_num) ==
    LET table_regions == find_aligned_text_regions(get_structured_text_lines(page))
        candidate(region_idx) ==
            LET table_data == parse_aligned_table(table_regions[region_idx])
            IN IF Len(table_data) >= 2
               THEN <<[type |-> <<"t", "e", "x", "t", "_", "a", "l", "i", "g", "n", "m",
                                  "e", "n", "t">>,
                       page |-> page_num, region_id |-> region_idx - 1,
                       data |-> table_data,
                       confidence |->
                           calculate_alignment_confidence(table_regions[region_idx]),
                       bbox |-> StubBBox]>>
               ELSE <<>>
    IN Concat([n \in 1..Len(table_regions) |-> candidate(n)])

\* _extract_table_lines (lines 1891-1913)
extract_table_lines(drawings) ==
    LET line_of(drawing) ==
            [start |-> drawing.start, end |-> drawing.end,
             horizontal |-> Abs(drawing.start[2] - drawing.end[2]) < 5,
             vertical |-> Abs(drawing.start[1] - drawing.end[1]) < 5]
        straight == SelectSeq(drawings, LAMBDA d :
                        /\ d.type = "l"
                        /\ (line_of(d).horizontal \/ line_of(d).vertical))
    IN [i \in 1..Len(straight) |-> line_of(straight[i])]

\* _build_grid_from_lines (lines 1915-1933): <<>> stands for None
build_grid_from_lines(lines) ==
    LET h_lines == SelectSeq(lines, LAMBDA l : l.horizontal)
        v_lines == SelectSeq(lines, LAMBDA l : l.vertical)
    IN IF Len(h_lines) >= 2 /\ Len(v_lines) >= 2
       THEN <<[horizontal_lines |-> h_lines, vertical_lines |-> v_lines,
               rows |-> Len(h_lines) - 1, cols |-> Len(v_lines) - 1]>>
       ELSE <<>>

\* _extract_text_from_grid (lines 1935-1939)
extract_text_from_grid(page, grid_structure) == <<>>

\* the confidence of a marked table (line 324)
MarkedConfidence == Rat(9, 10)

\* _extract_marked_tables (lines 303-332)
extract_marked_tables(page, page_num) ==
    LET lines == extract_table_lines(page.drawings)
        grid_structure == build_grid_from_lines(lines)
        table_data == extract_text_from_grid(page, grid_structure[1])
    IN IF lines # <<>> /\ grid_structure # <<>> /\ table_data # <<>>
       THEN <<[type |-> <<"m", "a", "r", "k", "e", "d", "_", "t", "a", "b", "l", "e">>,
               page |-> page_num, region_id |-> 0, data |-> table_data,
               confidence |-> MarkedConfidence, bbox |-> StubBBox]>>
       ELSE <<>>

\* self.min_table_confidence (line 17)
min_table_confidence == Rat(7, 10)

\* the attributes __init__ sets (lines 16-17)
NewTableExtractor ==
    [table_strategies |-> <<"bbox_analysis", "text_alignment", "hybrid">>,
     min_table_confidence |-> min_table_confidence]

\* _deduplicate_and_filter_tables (lines 1214-1216)
deduplicate_and_filter_tables(tables) ==
    SelectSeq(tables, LAMBDA t : RatLe(min_table_confidence, t.confidence))

\* The detectors whose PyMuPDF call can raise: page.get_text("dict") at line
\* 254 and at line 1795, page.get_drawings() at line 309.
Detectors == {"bbox_grid", "text_alignment", "marked_table"}

\* bbox_tables (line 28): the handler of lines 271-273 leaves tables = []
\* when page.get_text raises at line 254
bbox_tables(raising, page, page_num) ==
    IF "bbox_grid" \in raising THEN <<>> ELSE extract_bbox_tables(page, page_num)

\* alignment_tables (line 32): when page.get_text raises at line 1795 the
\* handler of lines 1817-1819 returns no text lines, so there is no region
alignment_tables(raising, page, page_num) ==
    IF "text_alignment" \in raising THEN <<>> ELSE extract_alignment_tables(page, page_num)

\* marker_tables (line 36): the handler of lines 328-330 leaves tables = []
\* when page.get_drawings raises at line 309
marker_tables(raising, page, page_num) ==
    IF "marked_table" \in raising THEN <<>> ELSE extract_marked_tables(page, page_num)

\* extract_tables_from_page as it would be without the handlers inside the
\* detectors: the first exception reaches the handler of lines 42-44, and
\* the tables extended so far are returned as they are
extract_tables_from_page_uncaught(extract_tables, raising, page, page_num) ==
    IF ~extract_tables THEN <<>>
    ELSE IF "bbox_grid" \in raising THEN <<>>
    ELSE IF "text_alignment" \in raising THEN extract_bbox_tables(page, page_num)
    ELSE IF "marked_table" \in raising
         THEN extract_bbox_tables(page, page_num) \o extract_alignment_tables(page, page_num)
    ELSE deduplicate_and_filter_tables(
             extract_bbox_tables(page, page_num)
             \o extract_alignment_tables(page, page_num)
             \o extract_marked_tables(page, page_num))

\* extract_tables_from_page (lines 19-46)
extract_tables_from_page(extract_tables, raising, page, page_num) ==
    IF ~extract_tables THEN <<>>
    ELSE deduplicate_and_filter_tables(
             bbox_tables(raising, page, page_num)
             \o alignment_tables(raising, page, page_num)
             \o marker_tables(raising, page, page_num))

(***************************************************************************)
(* The configuration: Config.DEFAULT_CONFIG and validate_config of         *)
(* src/config.py, with the keys validate_config reads.  A threshold is a   *)
(* rational, or a string when the caller's JSON holds one.                 *)
(***************************************************************************)
\* DEFAULT_CONFIG (lines 13-75)
DEFAULT_CONFIG ==
    [enable_ocr |-> TRUE, detect_scanned_pages |-> TRUE,
     intelligent_image_naming |-> TRUE, ocr_language |-> "eng",
     table_confidence_threshold |-> Rat(7, 10), ocr_confidence_threshold |-> 60]

\* pytesseract.get_languages() where pytesseract is installed
InstalledLanguages == {"eng", "deu"}

\* get_available_ocr_languages (lines 210-217)
get_available_ocr_languages(pytesseract_found) ==
    IF pytesseract_found THEN InstalledLanguages ELSE {"eng"}

RatMax(a, b) == IF RatLe(a, b) THEN b ELSE a

\* a value max() and min() cannot compare with a number, such as a string:
\* the denominator 0 marks it
NotANumber == [num |-> 0, den |-> 0]

\* lines 222-228
OcrChecked(cfg, pytesseract_found) ==
    IF ~pytesseract_found /\ cfg.enable_ocr
    THEN [cfg EXCEPT !.enable_ocr = FALSE, !.detect_scanned_pages = FALSE]
    ELSE cfg

\* lines 230-236
ImageNamingChecked(cfg, cv2_found) ==
    IF ~cv2_found /\ cfg.intelligent_image_naming
    THEN [cfg EXCEPT !.intelligent_image_naming = FALSE]
    ELSE cfg

\* lines 238-244
LanguageChecked(cfg, pytesseract_found) ==
    IF cfg.enable_ocr /\ cfg.ocr_language \notin get_available_ocr_languages(pytesseract_found)
    THEN [cfg EXCEPT !.ocr_language = "eng"]
    ELSE cfg

\* the configuration when line 247 is reached
BeforeThresholds(cfg, pytesseract_found, cv2_found) ==
    LanguageChecked(ImageNamingChecked(OcrChecked(cfg, pytesseract_found), cv2_found),
                    pytesseract_found)

\* max(0.0, min(1.0, threshold)) of line 247
ClampedThreshold(threshold) == RatMax(Rat(0, 1), RatMin(Rat(1, 1), threshold))

\* lines 246-250
ThresholdsChecked(cfg) ==
    [cfg EXCEPT !.table_confidence_threshold = ClampedThreshold(@),
                !.ocr_confidence_threshold = IF @ < 0 THEN 0 ELSE IF @ > 100 THEN 100 ELSE @]

\* validate_config (lines 220-252) where it returns; it raises TypeError at
\* line 247 when the threshold is not a number
validate_config(cfg, pytesseract_found, cv2_found) ==
    ThresholdsChecked(BeforeThresholds(cfg, pytesseract_found, cv2_found))

(***************************************************************************)
(* The other confidence scorers: _calculate_academic_table_confidence      *)
(* (lines 1324-1383) and, in extractors.py, _calculate_table_confidence    *)
(* (1431-1456) and _calculate_alignment_confidence (1458-1475).            *)
(***************************************************************************)
\* ' '.join(' '.join(row) for row in table_data).lower()
AllText(table_data) ==
    ToLower(Join(SP, [r \in 1..Len(table_data) |-> Join(SP, table_data[r])]))

\* academic_patterns (lines 1358-1369)
AcademicPatterns ==
    << RSeq(<<RWb, RLit(EtAl)>>),
       ReYearInParens,
       ReSuffixWord,
       ReMethodData,
       RSeq(<<ReNumber, RCh("%")>>),
       RSeq(<<RWb, RRep(RSet(Upper), 2, -1), RWb>>) >>

\* _calculate_academic_table_confidence
calculate_academic_table_confidence(table_data) ==
    IF table_data = <<>> THEN Rat(0, 1)
    ELSE LET row_lengths == [r \in 1..Len(table_data) |-> Len(table_data[r])]
             total_cells == SumSeq(row_lengths)
             cells == Concat(table_data)
             non_empty_cells == Cardinality({i \in 1..Len(cells) : NonBlank(cells[i])})
             completeness == IF total_cells > 0 THEN Rat(non_empty_cells, total_cells)
                             ELSE Rat(0, 1)
             max_len == MaxSeq(row_lengths)
             min_len == MinSeq(row_lengths)
             consistency == IF max_len > 0 THEN Rat(min_len, max_len) ELSE Rat(0, 1)
             numeric_score ==
                 Cardinality({i \in 1..Len(cells) : ReSearch(ReNumber, cells[i])})
             numeric == IF total_cells > 0 THEN NumericFactor(numeric_score, total_cells)
                        ELSE Rat(0, 1)
             all_text == AllText(table_data)
             matched == Cardinality({n \in 1..Len(AcademicPatterns) :
                                        ReSearch(AcademicPatterns[n], all_text)})
             academic == RatMin(Rat(15 * matched, 100), Rat(1, 1))
             total == RatSum(<<completeness, consistency, numeric, academic>>)
         IN Rat(total.num, 4 * total.den)

\* extractors.py, _calculate_table_confidence
LegacyCalculateTableConfidence(table_data) ==
    IF table_data = <<>> THEN Rat(0, 1)
    ELSE LET col_counts == [r \in 1..Len(table_data) |-> Len(table_data[r])]
             total_cells == SumSeq(col_counts)
             cells == Concat(table_data)
             numerical_cells ==
                 Cardinality({i \in 1..Len(cells) :
                     ReSearch(RAlt(<<ReDecimal, RSeq(<<RPlus(RSet(Digit)), RCh("%")>>)>>),
                              cells[i])})
             score == (IF total_cells >= 6 THEN 2 ELSE 0)
                      + (IF Len(table_data) >= 3 THEN 2 ELSE 0)
                      + (IF MaxSeq(col_counts) - MinSeq(col_counts) <= 1 THEN 3 ELSE 0)
                      + (IF 10 * numerical_cells > 3 * total_cells THEN 3 ELSE 0)
         IN RatMin(Rat(score, 10), Rat(1, 1))

\* round(x, -1) for an integer x: to the nearest ten, a half to the even ten
RoundToTen(x) ==
    LET q == x \div 10
        r == x % 10
    IN IF r > 5 \/ (r = 5 /\ q % 2 = 1) THEN 10 * (q + 1) ELSE 10 * q

\* extractors.py, _calculate_alignment_confidence: a region is a list of
\* lines, a line the bbox[0] of each of its spans
LegacyCalculateAlignmentConfidence(region) ==
    IF region = <<>> THEN Rat(0, 1)
    ELSE LET x_positions == Concat(region)
             unique_positions == {RoundToTen(x_positions[i]) : i \in 1..Len(x_positions)}
             n == Cardinality(unique_positions)
         IN IF n >= 2 THEN RatMin(Rat(8, 10), Rat(4 + n, 10)) ELSE Rat(4, 10)

(***************************************************************************)
(* Deduplication in extractors.py: _deduplicate_and_filter_tables (lines   *)
(* 1477-1503) and _bboxes_overlap (1505-1520).  A bbox is <<x1, y1, x2,    *)
(* y2>>.                                                                   *)
(***************************************************************************)
\* overlap_area > 0.5 * min(area1, area2)
LegacyBBoxesOverlap(bbox1, bbox2) ==
    LET overlap_x == Max2(0, Min2(bbox1[3], bbox2[3]) - Max2(bbox1[1], bbox2[1]))
        overlap_y == Max2(0, Min2(bbox1[4], bbox2[4]) - Max2(bbox1[2], bbox2[2]))
        overlap_area == overlap_x * overlap_y
        area1 == (bbox1[3] - bbox1[1]) * (bbox1[4] - bbox1[2])
        area2 == (bbox2[3] - bbox2[1]) * (bbox2[4] - bbox2[2])
    IN 2 * overlap_area > Min2(area1, area2)

\* tables.sort(key=lambda t: t['confidence'], reverse=True): stable
SortedByConfidenceDescending(q) ==
    LET before(i) == Cardinality({j \in 1..Len(q) :
                        \/ ~RatLe(q[j].confidence, q[i].confidence)
                        \/ (q[j].confidence = q[i].confidence /\ j < i)})
    IN List([p \in 1..Len(q) |-> q[CHOOSE i \in 1..Len(q) : before(i) = p - 1]])

\* lines 1489-1501: a table is kept unless its bbox overlaps a kept one
RECURSIVE KeepNonOverlapping(_, _)
KeepNonOverlapping(filtered_tables, final_tables) ==
    IF filtered_tables = <<>> THEN final_tables
    ELSE LET t == filtered_tables[1]
             overlaps == \E n \in 1..Len(final_tables) :
                            LegacyBBoxesOverlap(t.bbox, final_tables[n].bbox)
         IN KeepNonOverlapping(Tail(filtered_tables),
                               IF overlaps THEN final_tables
                               ELSE Append(final_tables, t))

LegacyDeduplicateAndFilterTables(tables) ==
    KeepNonOverlapping(
        SelectSeq(SortedByConfidenceDescending(tables),
                  LAMBDA t : RatLe(min_table_confidence, t.confidence)),
        <<>>)

(***************************************************************************)
(* The text detectors: the column structure of a block of lines (lines     *)
(* 711-1141 and 1941-1959).  A structure is the dict the code builds, a    *)
(* record with the same keys; <<>> stands for None.                        *)
(***************************************************************************)
\* the characters a class matches under re.IGNORECASE
AnyCase(cs) == cs \cup {LowerCh(c) : c \in cs} \cup {UpperCh(c) : c \in cs}

\* sorted(q) for a list of integers
SortedAsc(q) ==
    LET before(i) == Cardinality({j \in 1..Len(q) :
                        q[j] < q[i] \/ (q[j] = q[i] /\ j < i)})
    IN List([p \in 1..Len(q) |-> q[CHOOSE i \in 1..Len(q) : before(i) = p - 1]])

\* s.strip(chars)
StripChars(s, cs) ==
    LET keep == {i \in 1..Len(s) : s[i] \notin cs}
    IN IF keep = {} THEN <<>> ELSE SubSeq(s, SetMin(keep), SetMax(keep))

\* max(set(q), key=q.count) for a list of integers below 8, which a set
\* iterates in ascending order: the smallest of the most frequent values
MostCommon(q) ==
    LET count(v) == Cardinality({i \in 1..Len(q) : q[i] = v})
        values == {q[i] : i \in 1..Len(q)}
    IN SetMin({v \in values : \A w \in values : count(w) <= count(v)})

\* _is_numerical_value
is_numerical_value(word) ==
    LET cleaned == StripChars(word, {"[", "]", "(", ")", "%", ","})
        d == RPlus(RSet(Digit))
        e == RSeq(<<RSet({"e", "E"}), ROpt(RSet({"+", "-"})), d>>)
        patterns ==
            << RSeq(<<RBol, d, REol>>),
               RSeq(<<RBol, d, RCh("."), d, REol>>),
               RSeq(<<RBol, d, RCh("."), d, RCh("%"), REol>>),
               RSeq(<<RBol, d, e, REol>>),
               RSeq(<<RBol, d, RCh("."), d, e, REol>>) >>
    IN \E n \in 1..Len(patterns) : ReMatch(patterns[n], cleaned)

\* the least member of a set of indices, -1 for None
MinOrNone(S) == IF S = {} THEN -1 ELSE SetMin(S)

\* lines 1069-1074: at least 80% of the words are numerical
MostlyNumerical(remaining_words) ==
    10 * Cardinality({k \in 1..Len(remaining_words) :
                         is_numerical_value(remaining_words[k])})
        >= 8 * Len(remaining_words)

\* lines 1066-1077: the index of the first lone "]" that at least four words
\* follow, 80% of them numerical; -1 when there is none
CitationEndIdx(words) ==
    IF Len(words) < 5 THEN -1
    ELSE MinOrNone({i \in 0..(Len(words) - 1) :
                       /\ words[i + 1] = <<"]">>
                       /\ i < Len(words) - 4
                       /\ MostlyNumerical(SubSeq(words, i + 2, Len(words)))})

\* lines 1084-1099
NumericalGroup(total_numbers) ==
    LET group_size == IF total_numbers % 4 = 0 THEN 4
                      ELSE IF total_numbers % 3 = 0 THEN 3
                      ELSE IF total_numbers % 5 = 0 THEN 5
                      ELSE total_numbers \div 3
    IN [total_numbers |-> total_numbers, group_size |-> group_size,
        num_groups |-> total_numbers \div group_size]

\* lines 1101-1121: the structure, when the lines agree
ConsistentCitations(citation_patterns, numerical_groups, total, count) ==
    IF /\ count >= 2
       \* abs(pos - total / count) <= 1 for 70% of the lines
       /\ 10 * Cardinality({n \in 1..count :
                               Abs(citation_patterns[n] * count - total) <= count})
              >= 7 * count
       /\ numerical_groups # <<>>
    THEN [citation_end_patterns |-> citation_patterns,
          numerical_groups |-> numerical_groups,
          column_count |->
              MostCommon([n \in 1..Len(numerical_groups) |->
                             numerical_groups[n].num_groups]) + 1,
          avg_citation_pos |-> Rat(total, count)]
    ELSE <<>>

CitationsFound(citation_patterns, numerical_groups) ==
    ConsistentCitations(citation_patterns, numerical_groups,
                        SumSeq(citation_patterns), Len(citation_patterns))

\* lines 1058-1099: idxs[k] is citation_end_idx of line k, -1 for None, and
\* word_counts[k] the number of its words
CitationStructure(idxs, word_counts) ==
    LET cited == SelectSeq([k \in 1..Len(idxs) |-> k], LAMBDA k : idxs[k] # -1)
        grouped == SelectSeq([k \in 1..Len(idxs) |-> k],
                             LAMBDA k : /\ idxs[k] # -1
                                        /\ word_counts[k] - (idxs[k] + 1) >= 8)
    IN CitationsFound(
           List([n \in 1..Len(cited) |-> idxs[cited[n]]]),
           List([n \in 1..Len(grouped) |->
                    NumericalGroup(word_counts[grouped[n]] - (idxs[grouped[n]] + 1))]))

\* _find_academic_citation_numerical_structure
find_academic_citation_numerical_structure(lines) ==
    CitationStructure(
        List([k \in 1..Len(lines) |-> CitationEndIdx(Split(lines[k]))]),
        List([k \in 1..Len(lines) |-> Len(Split(lines[k]))]))

\* lines 832-839: the middle of each run of two or more whitespace characters
GapPositions(line) ==
    LET n == Len(line)
        sp(p) == p >= 1 /\ p <= n /\ line[p] \in SpaceCh
        starts == {a \in 0..(n - 1) : sp(a + 1) /\ sp(a + 2) /\ ~sp(a)}
        end_of(a) == SetMin({b \in (a + 1)..n : ~sp(b + 1)})
        ordered == Ascending(starts)
    IN List([k \in 1..Len(ordered) |-> (ordered[k] + end_of(ordered[k])) \div 2])

\* lines 848-860: each position joins the first cluster that has a member
\* within the tolerance, or starts a new one
RECURSIVE Clustered(_, _)
Clustered(positions, position_clusters) ==
    IF positions = <<>> THEN position_clusters
    ELSE LET pos == positions[1]
             near(c) == \E k \in 1..Len(c) : Abs(pos - c[k]) <= 4
             hits == {n \in 1..Len(position_clusters) : near(position_clusters[n])}
         IN Clustered(Tail(positions),
                      IF hits = {} THEN Append(position_clusters, <<pos>>)
                      ELSE [position_clusters EXCEPT
                                ![SetMin(hits)] = Append(@, pos)])

\* lines 878-884 and 1036-1040: a separator is kept when it lies at least
\* min_distance = 8 after the last one kept
RECURSIVE MinDistanceApart(_, _)
MinDistanceApart(positions, kept) ==
    IF positions = <<>> THEN kept
    ELSE MinDistanceApart(Tail(positions),
             IF kept = <<>> \/ positions[1] - kept[Len(kept)] >= 8
             THEN Append(kept, positions[1]) ELSE kept)

\* _find_multi_space_columns
find_multi_space_columns(lines) ==
    LET counted == SelectSeq(lines, NonBlank)
        all_gap_positions ==
            List([k \in 1..Len(counted) |-> GapPositions(counted[k])])
        position_clusters == Clustered(Concat(all_gap_positions), <<>>)
        valid_clusters ==
            SelectSeq(position_clusters,
                      LAMBDA c : Len(c) >= 1 /\ 2 * Len(c) >= Len(lines))
        median(c) == SortedAsc(c)[Len(c) \div 2 + 1]
        separator_positions ==
            SortedAsc([n \in 1..Len(valid_clusters) |-> median(valid_clusters[n])])
        filtered_positions == MinDistanceApart(separator_positions, <<>>)
    IN IF all_gap_positions = <<>> \/ valid_clusters = <<>> THEN <<>>
       ELSE [positions |-> filtered_positions,
             column_count |-> Len(filtered_positions) + 1]

\* _find_tab_columns
find_tab_columns(lines) ==
    LET tab_counts ==
            [k \in 1..Len(lines) |->
                Cardinality({i \in 1..Len(lines[k]) : lines[k][i] = "\t"})]
        most_common_count == MostCommon(tab_counts)
        consistent_lines ==
            Cardinality({k \in 1..Len(lines) : tab_counts[k] = most_common_count})
    IN IF tab_counts = <<>> \/ MaxSeq(tab_counts) = 0 THEN <<>>
       ELSE IF 10 * consistent_lines >= 7 * Len(lines)
       THEN [column_count |-> most_common_count + 1]
       ELSE <<>>

\* _find_positional_columns
find_positional_columns(lines) ==
    LET non_empty_lines == SelectSeq(lines, NonBlank)
        total_lines == Len(non_empty_lines)
        max_length == MaxSeq([k \in 1..total_lines |-> Len(non_empty_lines[k])])
        \* the densities at the 0-based column i
        char_density(i) ==
            Cardinality({k \in 1..total_lines :
                            /\ i < Len(non_empty_lines[k])
                            /\ non_empty_lines[k][i + 1] \notin SpaceCh})
        space_density(i) ==
            Cardinality({k \in 1..total_lines :
                            /\ i < Len(non_empty_lines[k])
                            /\ non_empty_lines[k][i + 1] \in SpaceCh})
        local_space(i) ==
            SumSeq([j \in 1..(Min2(i + 4, max_length) - (i - 3)) |->
                        space_density(i - 4 + j)])
        separator_candidates ==
            Ascending({i \in 5..(max_length - 6) :
                          /\ 5 * space_density(i) >= 3 * total_lines
                          /\ 10 * char_density(i) <= 3 * total_lines
                          /\ 2 * local_space(i) >= 7 * total_lines})
        \* lines 1018-1030: a region ends where the next candidate is more
        \* than 3 columns on
        region_starts ==
            SelectSeq([n \in 1..Len(separator_candidates) |-> n],
                      LAMBDA n : n = 1 \/ separator_candidates[n]
                                          - separator_candidates[n - 1] > 3)
        region_len(m) ==
            (IF m = Len(region_starts) THEN Len(separator_candidates) + 1
             ELSE region_starts[m + 1]) - region_starts[m]
        center_pos(m) ==
            separator_candidates[region_starts[m] + region_len(m) \div 2]
        separator_positions ==
            MinDistanceApart([m \in 1..Len(region_starts) |-> center_pos(m)], <<>>)
    IN IF non_empty_lines = <<>> THEN <<>>
       ELSE IF max_length < 10 \/ separator_candidates = <<>> THEN <<>>
       ELSE [positions |-> separator_positions,
             column_count |-> Len(separator_positions) + 1]

\* the ten named patterns, each with the expression _find_pattern_based_columns
\* looks for (lines 915-935) and the one _split_by_patterns cuts at (lines
\* 1428-1439); both are matched under re.IGNORECASE.  The lines of the model
\* are ASCII, so the unit prefix outside ASCII is left out of its class.
academic_patterns ==
    LET letter == RSet(Alpha)
        digits == RPlus(RSet(Digit))
        unclosed == RStar(RNot({")"}))
        et_al == RLitI(<<"e", "t", " ", "a", "l">>)
        year == RSeq(<<RCh("("), unclosed, RRep(RSet(Digit), 4, 4), unclosed,
                       RCh(")")>>)
        dataset ==
            RSeq(<<RCh("("), unclosed,
                   RAlt(<<RLitI(<<"d", "a", "t", "a", "s", "e", "t">>),
                          RLitI(<<"d", "a", "t", "a">>),
                          RLitI(<<"c", "o", "r", "p", "u", "s">>),
                          RLitI(<<"b", "e", "n", "c", "h", "m", "a", "r", "k">>)>>),
                   unclosed, RCh(")")>>)
        units ==
            RSeq(<<ReNumber,
                   ROpt(RSet(AnyCase({"M", "K", "B", "G", "T", "n", "p", "f"}))),
                   ROpt(RSet(AnyCase({"B", "W", "H", "z", "s", "F", "L", "V", "A"}))),
                   RWb>>)
        scientific ==
            RSeq(<<ReNumber, RSet({"e", "E"}), ROpt(RSet({"+", "-"})), digits>>)
        technical ==
            RSeq(<<RWb, letter, RStar(letter),
                   RRep(RSeq(<<letter, RStar(letter)>>), 1, 3), RWb>>)
        acronym ==
            RSeq(<<RWb, RRep(letter, 2, 6), RWb,
                   ROpt(RSeq(<<RCh("-"), digits>>))>>)
        versioned ==
            RSeq(<<RWb, RPlus(letter), ROpt(RSet({"-", "_"})), digits,
                   RStar(RSeq(<<RCh("."), digits>>)), RWb>>)
        hyphenated ==
            RSeq(<<RWb, RPlus(letter),
                   RRep(RSeq(<<RCh("-"), RPlus(letter)>>), 1, 3), RWb>>)
        both(name, r) == [name |-> name, find |-> r, cut |-> r]
    IN << [name |-> "author_reference",
           find |-> RSeq(<<RBol, letter, RLazy(RNot(Digit), 0, -1), RWb, et_al,
                           RCh(".")>>),
           cut |-> RSeq(<<letter, RLazy(RNot(Digit \cup {","}), 0, -1), RWb,
                          et_al, ROpt(RCh(".")), RStar(RNot({","}))>>)],
          both("year_parentheses", year),
          both("dataset_parentheses", dataset),
          [name |-> "percentage",
           find |-> RSeq(<<ReNumber, RCh("%")>>),
           cut |-> RSeq(<<ReNumber, RStar(RSet(SpaceCh)), RCh("%")>>)],
          both("numbers_with_units", units),
          both("scientific_notation", scientific),
          both("technical_terms", technical),
          both("acronyms", acronym),
          both("versioned_terms", versioned),
          both("hyphenated_terms", hyphenated) >>

\* sorted(patterns, key=lambda x: x['avg_position']): stable
SortedByAvgPosition(q) ==
    LET less(a, b) == ~RatLe(b.avg_position, a.avg_position)
        before(i) == Cardinality({j \in 1..Len(q) :
                        \/ less(q[j], q[i])
                        \/ (q[j].avg_position = q[i].avg_position /\ j < i)})
    IN List([p \in 1..Len(q) |-> q[CHOOSE i \in 1..Len(q) : before(i) = p - 1]])

\* lines 953-970
ConsistentPatterns(pattern_positions, consistent) ==
    IF consistent = <<>> THEN <<>>
    ELSE [patterns |->
              SortedByAvgPosition(
                  List([m \in 1..Len(consistent) |->
                           [name |-> academic_patterns[consistent[m]].name,
                            avg_position |->
                                Rat(SumSeq(pattern_positions[consistent[m]]),
                                    Len(pattern_positions[consistent[m]])),
                            frequency |-> Len(pattern_positions[consistent[m]])]])),
          column_count |-> Len(consistent) + 1]

\* lines 955-956: the patterns found in at least two lines and half of them
PatternsKept(pattern_positions, line_count) ==
    ConsistentPatterns(pattern_positions,
        SelectSeq([n \in 1..Len(pattern_positions) |-> n],
                  LAMBDA n : /\ Len(pattern_positions[n]) >= 2
                             /\ 2 * Len(pattern_positions[n]) >= line_count))

\* lines 939-951
PatternColumns(starts, line_count) ==
    PatternsKept(List([n \in 1..Len(starts) |->
                          SelectSeq(starts[n], LAMBDA a : a # -1)]),
                 line_count)

\* _find_pattern_based_columns
find_pattern_based_columns(lines) ==
    PatternColumns(
        \* the start of the first match of pattern n in every line, -1 for none
        List([n \in 1..Len(academic_patterns) |->
                 List([k \in 1..Len(lines) |->
                          SearchStart(academic_patterns[n].find, lines[k])])]),
        Len(lines))

\* _estimate_column_count_from_words
estimate_column_count_from_words(lines) ==
    LET total == SumSeq([k \in 1..Len(lines) |-> Len(Split(lines[k]))])
        n == Len(lines)
    IN IF lines = <<>> THEN 2
       ELSE IF total <= 4 * n THEN 2
       ELSE IF total <= 8 * n THEN 3
       ELSE IF total <= 12 * n THEN 4
       ELSE Min2(5, total \div (3 * n))

\* lines 750-751, 766-767, 781-782 and 790-791: +b for a count of columns from 2 to 15
ColumnCountBonus(found, b) ==
    IF 2 <= found.column_count /\ found.column_count <= 15 THEN b ELSE 0

\* lines 725-792: the strategies found, each with its score
Strategies(academic_structure, multi_space_structure, positional_structure, tab_structure, pattern_structure) ==
    (IF academic_structure = <<>> THEN <<>>
     ELSE <<[score |-> 10,
             structure |->
                [type |-> "academic_citation_numerical",
                 citation_end_patterns |-> academic_structure.citation_end_patterns,
                 numerical_groups |-> academic_structure.numerical_groups,
                 column_count |-> academic_structure.column_count]]>>)
    \o (IF multi_space_structure = <<>> THEN <<>>
        ELSE <<[score |-> 2 * Len(multi_space_structure.positions)
                          + ColumnCountBonus(multi_space_structure, 5),
                structure |->
                   [type |-> "multi_space",
                    positions |-> multi_space_structure.positions,
                    column_count |-> multi_space_structure.column_count]]>>)
    \o (IF positional_structure = <<>> THEN <<>>
        ELSE <<[score |-> Len(positional_structure.positions)
                          + ColumnCountBonus(positional_structure, 3),
                structure |->
                   [type |-> "positional",
                    positions |-> positional_structure.positions,
                    column_count |-> positional_structure.column_count]]>>)
    \o (IF tab_structure = <<>> THEN <<>>
        ELSE <<[score |-> 4 + ColumnCountBonus(tab_structure, 2),
                structure |->
                   [type |-> "tab",
                    column_count |-> tab_structure.column_count]]>>)
    \o (IF pattern_structure = <<>> THEN <<>>
        ELSE <<[score |-> Len(pattern_structure.patterns)
                          + ColumnCountBonus(pattern_structure, 1),
                structure |->
                   [type |-> "pattern",
                    patterns |-> pattern_structure.patterns,
                    column_count |-> pattern_structure.column_count]]>>)

\* the choice as it would be if the last of the strategies of the best score
\* were kept
BestStructure_last(strategies, non_empty_lines) ==
    IF strategies # <<>>
    THEN strategies[SetMax({n \in 1..Len(strategies) :
                               \A m \in 1..Len(strategies) :
                                   strategies[m].score <= strategies[n].score})]
             .structure
    ELSE [type |-> "word_based",
          column_count |-> estimate_column_count_from_words(non_empty_lines)]

\* lines 801-813: max() keeps the first of the strategies of the best score;
\* without a strategy the structure is word based
BestStructure(strategies, non_empty_lines) ==
    IF strategies # <<>>
    THEN strategies[SetMin({n \in 1..Len(strategies) :
                               \A m \in 1..Len(strategies) :
                                   strategies[m].score <= strategies[n].score})]
             .structure
    ELSE [type |-> "word_based",
          column_count |-> estimate_column_count_from_words(non_empty_lines)]

\* lines 728-731: the academic strategy sees the lines that hold a "]"
AcademicStructureOf(data_rows) ==
    IF data_rows = <<>> THEN <<>>
    ELSE find_academic_citation_numerical_structure(data_rows)

\* lines 719-813
StructureOf(non_empty_lines) ==
    IF Len(non_empty_lines) < 2 THEN <<>>
    ELSE BestStructure(
             Strategies(
                 AcademicStructureOf(
                     SelectSeq(non_empty_lines, LAMBDA l : Contains(l, <<"]">>))),
                 find_multi_space_columns(non_empty_lines),
                 find_positional_columns(non_empty_lines),
                 find_tab_columns(non_empty_lines),
                 find_pattern_based_columns(non_empty_lines)),
             non_empty_lines)

\* _analyze_table_column_structure: the strategies are scored in the order
\* academic, multi-space, positional, tab, pattern, and max() keeps the first
\* of the best
analyze_table_column_structure(lines) ==
    StructureOf(SelectSeq(lines, LAMBDA l : Len(Strip(l)) > 5))

(***************************************************************************)
(* The row splitters (lines 1143-1212 and 1415-1525).                      *)
(***************************************************************************)
\* lines 1184-1189 and 1197-1202: the words in groups of size, each joined
Grouped(words, size) ==
    List([m \in 1..((Len(words) + size - 1) \div size) |->
             Join(SP, Slice(words, (m - 1) * size, m * size))])

\* _split_academic_citation_numerical
split_academic_citation_numerical(line, structure) ==
    LET words == Split(line)
        found == {i \in 0..(Len(words) - 1) :
                     words[i + 1] = <<"]">> /\ i < Len(words) - 1}
        citation_end_idx == SetMin(found)
        method_name == Join(SP, Slice(words, 0, citation_end_idx + 1))
        remaining_numbers == Slice(words, citation_end_idx + 1, Len(words))
        numerical_groups == structure.numerical_groups
        group_sizes == [n \in 1..Len(numerical_groups) |->
                           numerical_groups[n].group_size]
    IN IF words = <<>> THEN <<>>
       ELSE IF found = {}
       THEN split_by_word_groups(line, structure.column_count)
       ELSE <<method_name>>
            \o Grouped(remaining_numbers,
                       IF numerical_groups # <<>> THEN MostCommon(group_sizes)
                       ELSE 4)

\* lines 1423-1434: one separator of _split_by_positions; at is <<start, columns>>
RECURSIVE CutAtPositions(_, _, _)
CutAtPositions(line, positions, at) ==
    IF positions = <<>> THEN at
    ELSE LET pos == positions[1]
             column_text == Strip(Slice(line, at[1], pos))
             rest == {p \in pos..(Len(line) - 1) : line[p + 1] \notin SpaceCh}
             start == IF rest = {} THEN Len(line) ELSE SetMin(rest)
         IN CutAtPositions(line, Tail(positions),
                IF pos < Len(line)
                THEN <<start, IF column_text # <<>> THEN Append(at[2], column_text)
                              ELSE at[2]>>
                ELSE at)

\* _split_by_positions
split_by_positions(line, positions) ==
    LET cut == CutAtPositions(line, SortedAsc(positions), <<0, <<>>>>)
        start == cut[1]
        final_column == Strip(Slice(line, start, Len(line)))
        columns == IF start < Len(line) /\ final_column # <<>>
                   THEN Append(cut[2], final_column) ELSE cut[2]
    IN IF positions = <<>> \/ ~NonBlank(line)
       THEN (IF NonBlank(line) THEN <<Strip(line)>> ELSE <<>>)
       ELSE IF columns # <<>> THEN columns ELSE <<Strip(line)>>

\* columns.append(text) for a text that is not empty
WithColumn(columns, text) == IF text # <<>> THEN Append(columns, text) ELSE columns

\* lines 1481-1498: the cut at one match; at is <<last_end, columns>> and
\* match is <<start, end>> within the text searched, <<>> for None
CutAtMatch(remaining, at, match) ==
    IF match = <<>> THEN at
    ELSE <<at[1] + match[2],
           WithColumn(IF match[1] > 0
                      THEN WithColumn(at[2], Strip(Slice(remaining, at[1],
                                                         at[1] + match[1])))
                      ELSE at[2],
                      Strip(Slice(remaining, at[1] + match[1], at[1] + match[2])))>>

\* lines 1472-1479: the search for the expression of a named pattern
SearchNamed(known, search_text) ==
    IF known = {} THEN <<>>
    ELSE SearchSpan(academic_patterns[CHOOSE n \in known : TRUE].cut, search_text)

\* lines 1471-1498: the loop over the sorted patterns
RECURSIVE CutAtPatterns(_, _, _)
CutAtPatterns(remaining, sorted_patterns, at) ==
    IF sorted_patterns = <<>> THEN at
    ELSE CutAtPatterns(remaining, Tail(sorted_patterns),
             CutAtMatch(remaining, at,
                 SearchNamed({n \in 1..Len(academic_patterns) :
                                 academic_patterns[n].name = sorted_patterns[1].name},
                             Slice(remaining, at[1], Len(remaining)))))

\* lines 1500-1504: what is left after the last match
ColumnsCut(remaining, cut) ==
    IF cut[1] < Len(remaining)
    THEN WithColumn(cut[2], Strip(Slice(remaining, cut[1], Len(remaining))))
    ELSE cut[2]

\* [col.strip() for col in parts if col.strip()]
StrippedParts(parts) ==
    LET kept == SelectSeq(parts, NonBlank)
    IN [n \in 1..Len(kept) |-> Strip(kept[n])]

\* lines 1506-1523: nothing was cut
UncutColumns(line, words) ==
    IF Contains(line, <<"\t">>) THEN StrippedParts(SplitAt(line, "\t"))
    ELSE IF Contains(line, <<" ", " ">>) THEN StrippedParts(SplitOnGaps(line))
    ELSE IF Len(words) <= 4 THEN words
    ELSE <<Join(SP, Slice(words, 0, Len(words) \div 2)),
           Join(SP, Slice(words, Len(words) \div 2, Len(words)))>>

ColumnsOrUncut(line, columns) ==
    IF columns # <<>> THEN columns ELSE UncutColumns(line, Split(line))

\* _split_by_patterns
split_by_patterns(line, patterns) ==
    IF patterns = <<>> \/ ~NonBlank(line)
    THEN (IF NonBlank(line) THEN <<Strip(line)>> ELSE <<>>)
    ELSE ColumnsOrUncut(line,
             ColumnsCut(Strip(line),
                 CutAtPatterns(Strip(line), SortedByAvgPosition(patterns),
                               <<0, <<>>>>)))

\* _parse_table_row_with_structure
parse_table_row_with_structure(line, structure) ==
    LET tabbed == SelectSeq(SplitAt(line, "\t"), NonBlank)
    IN IF ~NonBlank(line) THEN <<>>
       ELSE CASE structure.type = "academic_citation_numerical" ->
                    split_academic_citation_numerical(line, structure)
              [] structure.type = "multi_space" ->
                    split_by_positions(line, structure.positions)
              [] structure.type = "tab" ->
                    [n \in 1..Len(tabbed) |-> Strip(tabbed[n])]
              [] structure.type = "pattern" ->
                    split_by_patterns(line, structure.patterns)
              [] structure.type = "positional" ->
                    split_by_positions(line, structure.positions)
              [] OTHER -> split_by_word_groups(line, structure.column_count)

(***************************************************************************)
(* The text detectors: table sections (lines 367-666).  A section is the   *)
(* dict the code builds, with the keys title, table_number, description,   *)
(* content_lines and start_line.                                           *)
(***************************************************************************)
\* the offsets at which the stages of a pattern end in the match re finds
\* from offset i: each stage ends at the first offset, in the matcher's order,
\* from which the remaining stages can still match
RECURSIVE StageEnds(_, _, _, _)
StageEnds(stages, n, s, i) ==
    IF n > Len(stages) THEN <<>>
    ELSE LET rest == RSeq(SubSeq(stages, n + 1, Len(stages)))
             e == SelectSeq(Prio(stages[n], s, i),
                            LAMBDA j : Ends(rest, s, j) # {})[1]
         IN <<e>> \o StageEnds(stages, n + 1, s, e)

\* the patterns of _detect_table_title (lines 370-401) in the order they are
\* tried, each cut into stages at the parentheses of its groups: a pattern
\* of four stages has the groups as its stages 2 and 4, one of two stages
\* has its only group as stage 2.  The text searched is lower case.  The
\* lines of the model are ASCII, so the dashes outside ASCII are left out.
TitlePatterns ==
    LET table == RLit(<<"t", "a", "b", "l", "e">>)
        sp == RSet(SpaceCh)
        d == RPlus(RSet(Digit))
        rest == RStar(RNot({"\n"}))
        dot == RCh(".")
        dash == RSet({"-", ":"})
        spaced(r) == RSeq(<<RStar(sp), r, RStar(sp)>>)
        roman == RPlus(RSet({"i", "v", "x", "l", "c"}))
        letter == RSet(Lower)
        table_sp == RSeq(<<table, RPlus(sp)>>)
        opt_dot == RSeq(<<ROpt(dot), RStar(sp)>>)
    IN << <<table_sp, d, opt_dot, rest>>,
          <<table_sp, d, spaced(dash), rest>>,
          <<table_sp, d, spaced(dot), rest>>,
          <<table_sp, d, RPlus(sp), rest>>,
          <<table_sp, roman, opt_dot, rest>>,
          <<table_sp, roman, spaced(dash), rest>>,
          <<table_sp, letter, opt_dot, rest>>,
          <<table_sp, letter, spaced(dash), rest>>,
          <<RSeq(<<table, RStar(sp)>>), d, opt_dot, rest>>,
          <<RSeq(<<RLit(<<"t", "a", "b">>), dot, RStar(sp)>>), d, opt_dot, rest>>,
          <<RSeq(<<RLit(<<"t", "b", "l">>), ROpt(dot), RStar(sp)>>), d, opt_dot, rest>>,
          <<table_sp, d, RSeq(<<dot, RStar(sp)>>),
            RSeq(<<RPlus(RNot({"."})), dot, rest>>)>>,
          <<table_sp, d, spaced(RCh("-")), rest>>,
          <<RSeq(<<table, RStar(sp), RCh("(")>>), d,
            RSeq(<<RCh(")"), RStar(sp)>>), rest>>,
          <<RSeq(<<table, RStar(sp), RCh("[")>>), d,
            RSeq(<<RCh("]"), RStar(sp)>>), rest>>,
          <<RSeq(<<table, spaced(dash)>>), rest>>,
          <<table_sp, rest>> >>

\* _looks_like_table_header_line
looks_like_table_header_line(line) ==
    LET caps == RSeq(<<RWb, RRep(RSet(Alpha), 2, -1), RWb>>)
        d == RPlus(RSet(Digit))
        sp == RPlus(RSet(SpaceCh))
        header_indicators ==
            << ReSuffixWord,
               RSeq(<<RWb, RPlus(RSet(Alpha)),
                      RStar(RSeq(<<RSet({"-", "_"}), RPlus(RSet(Alpha))>>)), RWb>>),
               RAlt(<<ReStem(<<"d", "a", "t">>), ReStem(<<"c", "o", "r", "p">>), ReStem(<<"b", "e", "n", "c", "h">>)>>),
               RAlt(<<ReStem(<<"r", "e", "s", "u", "l", "t">>), ReStem(<<"p", "e", "r", "f", "o", "r", "m">>), ReStem(<<"s", "c", "o", "r", "e">>),
                      ReStem(<<"m", "e", "t", "r", "i", "c">>)>>),
               RAlt(<<ReStem(<<"p", "a", "r", "a", "m">>), ReStem(<<"f", "l", "o", "p">>)>>),
               RSeq(<<caps, RStar(RNot({"\n"})), caps>>),
               RSeq(<<d, sp, d, sp, d>>) >>
        line_lower == ToLower(line)
        indicator_count ==
            Cardinality({n \in 1..Len(header_indicators) :
                            ReSearch(header_indicators[n], line_lower)})
    IN indicator_count >= 2 /\ 10 <= Len(line) /\ Len(line) <= 200

\* the groups of a match: e lists the offsets at which the stages end
GroupsAt(stage_count, line_lower, e) ==
    IF stage_count = 2
    THEN <<<<"1">>, Slice(line_lower, e[1], e[2])>>
    ELSE <<Slice(line_lower, e[1], e[2]), Slice(line_lower, e[3], e[4])>>

\* lines 403-438: the match of the first pattern that matches
GroupsOf(stages, line_lower) ==
    GroupsAt(Len(stages), line_lower,
             StageEnds(stages, 1, line_lower,
                       SearchStart(RSeq(stages), line_lower)))

\* lines 403-456: matching holds the patterns that match
TitleMatch(line_lower, original_line, matching) ==
    IF matching # {}
    THEN GroupsOf(TitlePatterns[SetMin(matching)], line_lower)
    ELSE IF looks_like_table_header_line(original_line)
    THEN <<<<"1">>, Strip(original_line)>>
    ELSE <<>>

\* _detect_table_title: <<group(1), group(2)>> of the match returned, <<>>
\* for None
detect_table_title(line_lower, original_line) ==
    TitleMatch(line_lower, original_line,
               {n \in 1..Len(TitlePatterns) :
                   ReSearch(RSeq(TitlePatterns[n]), line_lower)})

\* _looks_like_table_content
looks_like_table_content(line, existing_lines) ==
    LET unclosed == RStar(RNot({")"}))
        d == RPlus(RSet(Digit))
        ReNumbers == RSeq(<<ReNumber, ROpt(RCh("%"))>>)
        ReCitations == RAlt(<<RSeq(<<RWb, RLit(EtAl)>>), ReYearInParens>>)
        ReStructured ==
            RAlt(<<ReNumbers, RSeq(<<RCh("("), unclosed, d, unclosed, RCh(")")>>)>>)
        ReAcronym == RSeq(<<RWb, RRep(RSet(Upper), 2, 4), RWb>>)
        short == RSeq(<<RWb, RRep(RSet(Lower), 2, 6), RWb>>)
        words == Split(line)
        word_count == Len(words)
        has_numbers == ReSearch(ReNumbers, line)
        has_parentheses == Contains(line, <<"(">>) /\ Contains(line, <<")">>)
        has_abbreviations ==
            ReSearch(RSeq(<<RWb, RRep(RSet(Upper), 2, -1), RWb>>), line)
        has_citations == ReSearch(ReCitations, line)
        has_structured_data == ReSearch(ReStructured, line)
        academic_content_indicators ==
            << has_numbers,
               has_abbreviations,
               has_citations,
               has_structured_data,
               10 * Cardinality({words[k] : k \in 1..Len(words)}) < 7 * Len(words),
               ReSearch(ReAcronym, line),
               ReSearch(RSeq(<<RWb, RPlus(RSet(Alpha)), RCh("-"),
                               RPlus(RSet(Alpha)), RWb>>), line),
               ReSearch(RSeq(<<short,
                               RRep(RSeq(<<RPlus(RSet(SpaceCh)), short>>), 1, 4)>>),
                        ToLower(line)),
               ReSearch(ReSuffixWord, ToLower(line)),
               ReSearch(RAlt(<<RSeq(<<RWb, RSet(Lower), d, RWb>>),
                               RSeq(<<RWb, RPlus(RSet(WordCh)),
                                      ROpt(RSet({"-", "_"})), d, RWb>>)>>),
                        ToLower(line)) >>
        total == SumSeq([k \in 1..Len(existing_lines) |->
                            Len(Split(existing_lines[k]))])
        n == Len(existing_lines)
        \* abs(word_count - total / n) <= 6
        word_count_similarity == Abs(word_count * n - total) <= 6 * n
        some(P(_)) == \E k \in 1..n : P(existing_lines[k])
        has_similar_patterns ==
            \/ has_numbers /\ some(LAMBDA l : ReSearch(ReNumbers, l))
            \/ has_parentheses /\ some(LAMBDA l : Contains(l, <<"(">>))
            \/ has_citations /\ some(LAMBDA l : ReSearch(ReCitations, l))
            \/ has_structured_data /\ some(LAMBDA l : ReSearch(ReStructured, l))
            \/ has_abbreviations /\ some(LAMBDA l : ReSearch(ReAcronym, l))
    IN IF ~NonBlank(line) THEN FALSE
       ELSE IF existing_lines = <<>> THEN word_count >= 2
       ELSE IF Cardinality({k \in 1..Len(academic_content_indicators) :
                               academic_content_indicators[k]}) >= 2
       THEN TRUE
       ELSE word_count_similarity \/ has_similar_patterns

\* lines 546-568: is_row[k] tells whether line k looks like a table row
ImplicitSections(lines, is_row) ==
    LET row(k) == k >= 1 /\ k <= Len(lines) /\ is_row[k]
        starts == Ascending({k \in 1..Len(lines) : row(k) /\ ~row(k - 1)})
        end_of(k) == SetMin({e \in k..Len(lines) : ~row(e + 1)})
        blocks == SelectSeq(starts, LAMBDA k : end_of(k) - k + 1 >= 3)
    IN [b \in 1..Len(blocks) |->
           [start_line |-> blocks[b] - 1,
            content_lines |-> SubSeq(lines, blocks[b], end_of(blocks[b])),
            title |-> <<"T", "a", "b", "l", "e", " ", "(", "d", "e", "t", "e", "c", "t", "e", "d", " ", "a", "t", " ", "l", "i", "n", "e", " ">>
                      \o IntStr(blocks[b]) \o <<")">>,
            table_number |-> <<"1">>,
            description |-> <<"I", "m", "p", "l", "i", "c", "i", "t", "l", "y", " ", "d", "e", "t", "e", "c", "t", "e", "d", " ", "t", "a", "b", "l", "e">>]]

\* _find_implicit_table_sections: the blocks of three or more consecutive
\* lines that look like table rows
find_implicit_table_sections(lines) ==
    ImplicitSections(lines,
        List([k \in 1..Len(lines) |-> looks_like_table_row(lines[k])]))

\* lines 502-503 and 530-531: a section is kept with two content lines or more
SavedSection(sections, current_section) ==
    IF current_section # <<>> /\ Len(current_section.content_lines) >= 2
    THEN Append(sections, current_section) ELSE sections

\* the loop of _find_complete_table_sections (lines 493-527) from line i on,
\* and the section at the end (lines 529-531); <<>> stands for no section.
\* ScanLine is one turn of the loop, table_title_match being what
\* _detect_table_title returned for the line.
RECURSIVE ScanSections(_, _, _, _)
RECURSIVE ScanLine(_, _, _, _, _)
\* one turn of the loop as it would be if a line that is not table content
\* were passed over and the section kept open
ScanLine_skipping(lines, i, sections, current_section, table_title_match) ==
    IF table_title_match # <<>>
    THEN ScanSections(lines, i + 1, SavedSection(sections, current_section),
             [title |-> lines[i + 1],
              table_number |-> table_title_match[1],
              description |-> Strip(table_title_match[2]),
              content_lines |-> <<>>,
              start_line |-> i])
    ELSE IF current_section = <<>>
    THEN ScanSections(lines, i + 1, sections, <<>>)
    ELSE IF looks_like_table_content(lines[i + 1], current_section.content_lines)
    THEN ScanSections(lines, i + 1, sections,
             [current_section EXCEPT !.content_lines = Append(@, lines[i + 1])])
    ELSE ScanSections(lines, i + 1, sections, current_section)

ScanSections(lines, i, sections, current_section) ==
    IF i >= Len(lines) THEN SavedSection(sections, current_section)
    ELSE ScanLine(lines, i, sections, current_section,
                  detect_table_title(ToLower(lines[i + 1]), lines[i + 1]))

ScanLine(lines, i, sections, current_section, table_title_match) ==
    IF table_title_match # <<>>
    THEN ScanSections(lines, i + 1, SavedSection(sections, current_section),
             [title |-> lines[i + 1],
              table_number |-> table_title_match[1],
              description |-> Strip(table_title_match[2]),
              content_lines |-> <<>>,
              start_line |-> i])
    ELSE IF current_section = <<>>
    THEN ScanSections(lines, i + 1, sections, <<>>)
    ELSE IF looks_like_table_content(lines[i + 1], current_section.content_lines)
    THEN ScanSections(lines, i + 1, sections,
             [current_section EXCEPT !.content_lines = Append(@, lines[i + 1])])
    ELSE ScanSections(lines, i + 1, SavedSection(sections, current_section), <<>>)

\* lines 533-536: without a titled section, the implicit ones
SectionsOrImplicit(lines, sections) ==
    IF sections = <<>> THEN find_implicit_table_sections(lines) ELSE sections

\* _find_complete_table_sections
find_complete_table_sections(lines) ==
    SectionsOrImplicit(lines, ScanSections(lines, 0, <<>>, <<>>))

(***************************************************************************)
(* The text detectors: from sections to tables (lines 334-365, 668-709,    *)
(* 1230-1322, 1385-1413 and 1622-1681).                                    *)
(***************************************************************************)
\* _similar_table_structure
similar_table_structure(lines1, lines2) ==
    \E k \in 1..Min2(3, Min2(Len(lines1), Len(lines2))) :
        /\ Abs(Len(Split(lines1[k])) - Len(Split(lines2[k]))) <= 3
        /\ Abs(FindAllCount(ReNumber, lines1[k])
               - FindAllCount(ReNumber, lines2[k])) <= 2

\* _likely_table_continuation
likely_table_continuation(prev_lines, curr_lines) ==
    LET first_curr_line == curr_lines[1]
        has_method_pattern ==
            ReMatch(RSeq(<<RSet(Alpha), RPlus(RSet(WordCh \cup {"-"}))>>),
                    first_curr_line)
        has_many_numbers == FindAllCount(ReNumber, first_curr_line) >= 3
        header_patterns ==
            << RAlt(<<ReStem(<<"m", "e", "t", "h", "o", "d">>), ReStem(<<"a", "p", "p", "r", "o", "a", "c", "h">>)>>),
               RAlt(<<ReStem(<<"m", "o", "d", "e", "l">>), ReStem(<<"d", "a", "t">>)>>),
               RAlt(<<ReStem(<<"p", "a", "r", "a", "m">>), ReStem(<<"f", "l", "o", "p">>)>>) >>
        looks_like_header ==
            \E n \in 1..Len(header_patterns) :
                ReSearch(header_patterns[n], ToLower(first_curr_line))
    IN IF prev_lines = <<>> \/ curr_lines = <<>> THEN FALSE
       ELSE (has_method_pattern \/ has_many_numbers) /\ ~looks_like_header

\* the loop of _consolidate_related_table_sections (lines 1238-1267);
\* <<>> stands for no current group
RECURSIVE Consolidated(_, _, _)
Consolidated(sections, consolidated, current_group) ==
    IF sections = <<>>
    THEN IF current_group # <<>> THEN Append(consolidated, current_group)
         ELSE consolidated
    ELSE LET section == sections[1]
             title == ToLower(section.title)
             content_lines == section.content_lines
             numbered ==
                 ReSearch(RSeq(<<RLit(<<"t", "a", "b", "l", "e">>), RPlus(RSet(SpaceCh)),
                                 RPlus(RSet(Digit))>>), title)
             should_merge ==
                 /\ current_group # <<>>
                 /\ \/ ~numbered
                    \/ similar_table_structure(current_group.content_lines,
                                               content_lines)
                    \/ likely_table_continuation(current_group.content_lines,
                                                 content_lines)
         IN IF should_merge
            THEN Consolidated(Tail(sections), consolidated,
                     [current_group EXCEPT
                         !.content_lines = @ \o content_lines,
                         !.description =
                             IF @ = <<>> /\ section.description # <<>>
                             THEN section.description ELSE @])
            ELSE Consolidated(Tail(sections),
                     IF current_group # <<>>
                     THEN Append(consolidated, current_group) ELSE consolidated,
                     section)

\* _consolidate_related_table_sections
consolidate_related_table_sections(sections) ==
    Consolidated(sections, <<>>, <<>>)

\* should_merge (lines 1243-1257) for a section, current_lines being the
\* content_lines of the current group
should_merge(current_lines, section) ==
    \/ ~ReSearch(RSeq(<<RLit(<<"t", "a", "b", "l", "e">>), RPlus(RSet(SpaceCh)),
                       RPlus(RSet(Digit))>>), ToLower(section.title))
    \/ similar_table_structure(current_lines, section.content_lines)
    \/ likely_table_continuation(current_lines, section.content_lines)

\* The same loop with the list objects made explicit.  The content_lines of
\* the a-th input section is the list object at address a, and heap[a] is
\* what that object holds.  section.copy() (line 1268) copies the dictionary
\* and not the list, so the content_lines of the current group is the object
\* of the section that started the group, and extend (line 1261) changes it.
\* A group is its dictionary with the address for content_lines; <<>> stands
\* for no current group.  The result is the heap at the return and the
\* groups returned.
RECURSIVE ConsolidatedInPlace(_, _, _, _, _)
\* the loop as it would be if a merge left the lines of the section out
ConsolidatedInPlace_dropping(sections, k, heap, consolidated, current_group) ==
    IF k > Len(sections)
    THEN [heap |-> heap,
          consolidated |-> IF current_group # <<>> THEN Append(consolidated, current_group)
                           ELSE consolidated]
    ELSE IF current_group # <<>> /\ should_merge(heap[current_group.content_lines], sections[k])
    THEN ConsolidatedInPlace(sections, k + 1, heap, consolidated, current_group)
    ELSE ConsolidatedInPlace(sections, k + 1, heap,
             IF current_group # <<>> THEN Append(consolidated, current_group)
             ELSE consolidated,
             [sections[k] EXCEPT !.content_lines = k])

ConsolidatedInPlace(sections, k, heap, consolidated, current_group) ==
    IF k > Len(sections)
    THEN [heap |-> heap,
          consolidated |-> IF current_group # <<>> THEN Append(consolidated, current_group)
                           ELSE consolidated]
    ELSE IF current_group # <<>> /\ should_merge(heap[current_group.content_lines], sections[k])
    THEN ConsolidatedInPlace(sections, k + 1,
             [heap EXCEPT ![current_group.content_lines] = @ \o heap[k]],
             consolidated,
             [current_group EXCEPT
                 !.description = IF @ = <<>> /\ sections[k].description # <<>>
                                 THEN sections[k].description ELSE @])
    ELSE ConsolidatedInPlace(sections, k + 1, heap,
             IF current_group # <<>> THEN Append(consolidated, current_group)
             ELSE consolidated,
             [sections[k] EXCEPT !.content_lines = k])

\* the list objects of the sections handed to the consolidation
ContentLinesOf(sections) == [a \in 1..Len(sections) |-> sections[a].content_lines]

\* the dictionaries with the lists their content_lines refer to
WithContentLines(dicts, heap) ==
    [n \in 1..Len(dicts) |-> [dicts[n] EXCEPT !.content_lines = heap[@]]]

\* the sections handed to _consolidate_related_table_sections as they are
\* when it has returned
SectionsAfterConsolidation(sections, at_return) ==
    [a \in 1..Len(sections) |-> [sections[a] EXCEPT !.content_lines = at_return.heap[a]]]

\* _looks_like_header_row
looks_like_header_row(line) ==
    LET sp == RPlus(RSet(SpaceCh))
        d == RSet(Digit)
        w == RPlus(RSet(WordCh))
        caps == RSeq(<<RWb, RRep(RSet(Upper), 2, -1), sp>>)
        short(cs) == RSeq(<<RWb, RRep(RSet(cs), 2, 4), RWb>>)
        repeated(cs) ==
            RSeq(<<short(cs), RRep(RSeq(<<sp, short(cs)>>), 2, -1)>>)
        primary_patterns ==
            << RSeq(<<RWb, RRep(RSet(Lower), 4, 12), RWb>>),
               RSeq(<<caps, RRep(d, 4, 4), RWb>>),
               RSeq(<<RWb, RSet(Upper), RPlus(RSet(Lower)), RSet(Upper),
                      RStar(RSet(Lower)), RWb>>),
               RSeq(<<RWb, w, RSet({"-", "_"}), w, RWb>>),
               RSeq(<<RWb, RSet(Upper), RRep(RSet(Lower), 2, 8), RWb>>) >>
        metric_patterns == <<repeated(Lower), repeated(Upper)>>
        words == Split(ToLower(line))
        primary_matches ==
            Cardinality({n \in 1..Len(primary_patterns) :
                            ReSearch(primary_patterns[n], line)})
        metric_matches ==
            Cardinality({n \in 1..Len(metric_patterns) :
                            ReSearch(metric_patterns[n], line)})
        has_dataset_pattern ==
            ReSearch(RAlt(<<RSeq(<<caps, RRep(d, 4, 4), RWb>>),
                            RSeq(<<caps, RPlus(d), RWb>>)>>), line)
        unique_words == {words[k] : k \in 1..Len(words)}
        \* len(unique_words) / len(words) < 0.6
        is_repetitive ==
            words # <<>> /\ 10 * Cardinality(unique_words) < 6 * Len(words)
        is_primary_header ==
            /\ primary_matches >= 1 \/ has_dataset_pattern
            /\ ~is_repetitive
            /\ metric_matches <= primary_matches \/ metric_matches <= 2
        total_matches == primary_matches + metric_matches
        is_traditional_header ==
            \/ total_matches >= 2 /\ ~is_repetitive
            \/ \E term \in {<<"p", "a", "r", "a", "m", "e", "t", "e", "r", "s", " ", "(", "m", ")">>,
                            <<"f", "l", "o", "p", "s">>,
                            <<"f", "p", "s">>,
                            <<"t", "h", "r", "o", "u", "g", "h", "p", "u", "t">>} :
                   Contains(ToLower(line), term)
    IN is_primary_header \/ is_traditional_header

\* line 709
AtLeastTwoRows(table_data) == IF Len(table_data) >= 2 THEN table_data ELSE <<>>

\* lines 697-709: the header and the rows that were split into cells
TableOf(header_columns, parsed) ==
    IF header_columns = <<>> THEN <<>>
    ELSE AtLeastTwoRows(<<header_columns>> \o SelectSeq(parsed, LAMBDA r : r # <<>>))

\* lines 695-706: the header is line at, the data rows are the lines after it
RowsFrom(content_lines, at, column_structure) ==
    TableOf(parse_table_row_with_structure(content_lines[at], column_structure),
            List([k \in 1..(Len(content_lines) - at) |->
                     parse_table_row_with_structure(content_lines[at + k],
                                                    column_structure)]))

\* lines 679-693: the header is the first of the first three lines that
\* looks like one, or else the first line; the lines before it are not used
HeaderAt(headers) == IF headers # {} THEN SetMin(headers) ELSE 1

ParsedWith(content_lines, column_structure) ==
    IF column_structure = <<>> THEN <<>>
    ELSE RowsFrom(content_lines,
                  HeaderAt({i \in 1..Min2(3, Len(content_lines)) :
                               looks_like_header_row(content_lines[i])}),
                  column_structure)

\* _parse_academic_table_section: the rows of the table, <<>> for None
parse_academic_table_section(section) ==
    IF section.content_lines = <<>> THEN <<>>
    ELSE ParsedWith(section.content_lines,
                    analyze_table_column_structure(section.content_lines))

\* the validation as it would be with the row count as its only test
validate_academic_table_rows_only(table_data) ==
    Len(table_data) >= 2

\* _validate_academic_table
validate_academic_table(table_data) ==
    LET col_counts == [r \in 1..Len(table_data) |-> Len(table_data[r])]
        total_cells == SumSeq(col_counts)
        cells == Concat(table_data)
        non_empty_cells == Cardinality({i \in 1..Len(cells) : NonBlank(cells[i])})
    IN /\ Len(table_data) >= 2
       \* avg_cols >= min_cols
       /\ total_cells >= 2 * Len(table_data)
       \* non_empty_cells >= total_cells * 0.6
       /\ 10 * non_empty_cells >= 6 * total_cells

\* lines 348-363: the candidate of a section, when it parses and validates
TextTable(section, section_idx, page_num, table_data) ==
    IF table_data # <<>> /\ validate_academic_table(table_data)
    THEN <<[type |-> <<"a", "c", "a", "d", "e", "m", "i", "c", "_", "t", "e", "x", "t", "_", "t", "a", "b", "l", "e">>,
            page |-> page_num,
            region_id |-> section_idx,
            data |-> table_data,
            confidence |-> calculate_academic_table_confidence(table_data),
            bbox |-> StubBBox,
            title |-> section.title,
            description |-> section.description]>>
    ELSE <<>>

\* lines 347-363: the candidates of the consolidated sections from the one
\* of index section_idx on
RECURSIVE TextTables(_, _, _)
TextTables(consolidated_sections, section_idx, page_num) ==
    IF section_idx >= Len(consolidated_sections) THEN <<>>
    ELSE TextTable(consolidated_sections[section_idx + 1], section_idx, page_num,
                   parse_academic_table_section(
                       consolidated_sections[section_idx + 1]))
         \o TextTables(consolidated_sections, section_idx + 1, page_num)

\* the lines extract_tables_from_text works on (line 339)
TextLines(text) ==
    LET split == SelectSeq(SplitAt(text, "\n"), NonBlank)
    IN List([k \in 1..Len(split) |-> Strip(split[k])])

\* extract_tables_from_text
extract_tables_from_text(text, page_num) ==
    TextTables(
        consolidate_related_table_sections(
            find_complete_table_sections(TextLines(text))),
        0, page_num)

(***************************************************************************)
(* State.                                                                  *)
(*                                                                         *)
(* One call of _split_by_word_groups: its arguments, its return value and  *)
(* whether it has returned.                                                *)
(***************************************************************************)
VARIABLES line, target_columns, columns, split_returned

splitVars == <<line, target_columns, columns, split_returned>>

\* One table handed to the renderers: the table as given, the table as the
\* calls left it, what the two calls of the package renderer and the call of
\* the renderer of extractors.py returned, whether a call raised, and how
\* many calls were made.
VARIABLES table_given, table, markdown1, markdown2, legacy_markdown,
          render_raised, render_calls

renderVars == <<table_given, table, markdown1, markdown2, legacy_markdown,
                render_raised, render_calls>>

\* One page through extract_tables_from_page and the rendering loop of the
\* converter: the configuration flag, the page and its number, the tables
\* returned, whether the call has returned, and the renderings so far;
\* page_raising is the set of detectors whose PyMuPDF call raises on this page.
VARIABLES extract_tables, page, page_num, tables, page_returned, rendered,
          page_raising

pageVars == <<extract_tables, page, page_num, tables, page_returned, rendered,
              page_raising>>

\* One scoring: the table data, the region of text lines or the region of
\* span positions handed to a scorer, the confidence it returned, and which
\* detector's scorer it was ("" before the call).
VARIABLES conf_table, conf_text_region, conf_span_region, confidence, scored_by

confVars == <<conf_table, conf_text_region, conf_span_region, confidence, scored_by>>

\* One call of each _deduplicate_and_filter_tables on the candidates of a
\* page: the candidates, what the package class and the class of
\* extractors.py returned, and which of the two calls were made.
VARIABLES candidates, retained, legacy_retained, dedup_done, legacy_dedup_done

dedupVars == <<candidates, retained, legacy_retained, dedup_done, legacy_dedup_done>>

\* One paragraph of text through extract_tables_from_text, and its lines
\* through the column-structure inference and the row splitter: the text and
\* the page number, the candidates returned, the structure inferred (<<>> for
\* None), the cells of each line, and which of the two calls were made.
VARIABLES paragraph_text, text_page_num, text_tables, text_returned,
          inferred_structure, split_rows, structure_returned

textVars == <<paragraph_text, text_page_num, text_tables, text_returned,
              inferred_structure, split_rows, structure_returned>>

\* One configuration through validate_config and the construction of the
\* TableExtractor: the dictionary the caller supplied and the dictionary as
\* it is now, whether pytesseract and cv2 can be imported, which of the two
\* calls were made, whether either raised, and the min_table_confidence of
\* the extractor constructed (<<>> before the construction, then <<value>>).
VARIABLES config_data, config, pytesseract_installed, cv2_installed, config_validated,
          config_raised, extractor_threshold

configVars == <<config_data, config, pytesseract_installed, cv2_installed,
                config_validated, config_raised, extractor_threshold>>

\* The lines of one text through _find_complete_table_sections and the
\* sections it returns through _consolidate_related_table_sections: the
\* lines, the sections of the titled scan (the local 'sections' at line 533),
\* the list returned as it is now and as it was when it was returned, the
\* groups the consolidation returned, and how far the text has got.
VARIABLES scan_lines, titled_sections, table_sections, sections_as_returned,
          consolidated_sections, sect_pc

sectVars == <<scan_lines, titled_sections, table_sections, sections_as_returned,
              consolidated_sections, sect_pc>>

\* The pages of one document through _process_page, in any order: the
\* pages, the extract_tables flag of the configuration, the attributes of
\* the TableExtractor, the tables returned for each page (<<>> before its
\* call), and the page numbers in the order of their calls.
VARIABLES doc, doc_extract_tables, table_extractor, page_tables, pages_processed

docVars == <<doc, doc_extract_tables, table_extractor, page_tables, pages_processed>>

\* One page as page.get_text("dict") gives it, with spans that may lack the
\* bbox key (<<>> for a span without it), through extract_tables_from_page:
\* the page, the tables returned and whether the call has returned.
VARIABLES dict_page, fragment_tables, fragments_returned

fragVars == <<dict_page, fragment_tables, fragments_returned>>

\* One call of _find_multi_space_columns: the lines, what it returns (<<>>
\* for None) and whether it has returned.
VARIABLES column_lines, multi_space_columns, columns_returned

multiVars == <<column_lines, multi_space_columns, columns_returned>>

vars == <<splitVars, renderVars, pageVars, confVars, dedupVars, textVars, configVars, sectVars, docVars, fragVars, multiVars>>

\* Each specification below runs one part of the program; the variables of
\* the other parts stay at these values.
SplitIdle ==
    /\ line = <<>>
    /\ target_columns = 0
    /\ columns = <<>>
    /\ split_returned = FALSE

NoTable == [data |-> <<>>, region_id |-> 0, confidence |-> [num |-> 0, den |-> 1],
            type |-> <<>>]

RenderIdle ==
    /\ table_given = NoTable
    /\ table = NoTable
    /\ markdown1 = <<>>
    /\ markdown2 = <<>>
    /\ legacy_markdown = <<>>
    /\ render_raised = FALSE
    /\ render_calls = 0

NoPage == [lines |-> <<>>, drawings |-> <<>>]

PageIdle ==
    /\ extract_tables = TRUE
    /\ page = NoPage
    /\ page_num = 0
    /\ tables = <<>>
    /\ page_returned = FALSE
    /\ rendered = <<>>
    /\ page_raising = {}

ConfIdle ==
    /\ conf_table = <<>>
    /\ conf_text_region = <<>>
    /\ conf_span_region = <<>>
    /\ confidence = Rat(0, 1)
    /\ scored_by = ""

DedupIdle ==
    /\ candidates = <<>>
    /\ retained = <<>>
    /\ legacy_retained = <<>>
    /\ dedup_done = FALSE
    /\ legacy_dedup_done = FALSE

TextIdle ==
    /\ paragraph_text = <<>>
    /\ text_page_num = 0
    /\ text_tables = <<>>
    /\ text_returned = FALSE
    /\ inferred_structure = <<>>
    /\ split_rows = <<>>
    /\ structure_returned = FALSE

ConfigIdle ==
    /\ config_data = DEFAULT_CONFIG
    /\ config = DEFAULT_CONFIG
    /\ pytesseract_installed = TRUE
    /\ cv2_installed = TRUE
    /\ config_validated = FALSE
    /\ config_raised = FALSE
    /\ extractor_threshold = <<>>

SectIdle ==
    /\ scan_lines = <<>>
    /\ titled_sections = <<>>
    /\ table_sections = <<>>
    /\ sections_as_returned = <<>>
    /\ consolidated_sections = <<>>
    /\ sect_pc = "start"

DocIdle ==
    /\ doc = <<>>
    /\ doc_extract_tables = TRUE
    /\ table_extractor = NewTableExtractor
    /\ page_tables = <<>>
    /\ pages_processed = <<>>

FragIdle ==
    /\ dict_page = [lines |-> <<>>, drawings |-> <<>>]
    /\ fragment_tables = <<>>
    /\ fragments_returned = FALSE

MultiIdle ==
    /\ column_lines = <<>>
    /\ multi_space_columns = <<>>
    /\ columns_returned = FALSE

IdleButSplit == RenderIdle /\ PageIdle /\ ConfIdle /\ DedupIdle /\ TextIdle /\ ConfigIdle /\ SectIdle /\ DocIdle /\ FragIdle /\ MultiIdle
IdleButRender == SplitIdle /\ PageIdle /\ ConfIdle /\ DedupIdle /\ TextIdle /\ ConfigIdle /\ SectIdle /\ DocIdle /\ FragIdle /\ MultiIdle
IdleButPage == SplitIdle /\ RenderIdle /\ ConfIdle /\ DedupIdle /\ TextIdle /\ ConfigIdle /\ SectIdle /\ DocIdle /\ FragIdle /\ MultiIdle
IdleButConf == SplitIdle /\ RenderIdle /\ PageIdle /\ DedupIdle /\ TextIdle /\ ConfigIdle /\ SectIdle /\ DocIdle /\ FragIdle /\ MultiIdle
IdleButDedup == SplitIdle /\ RenderIdle /\ PageIdle /\ ConfIdle /\ TextIdle /\ ConfigIdle /\ SectIdle /\ DocIdle /\ FragIdle /\ MultiIdle
IdleButText == SplitIdle /\ RenderIdle /\ PageIdle /\ ConfIdle /\ DedupIdle /\ ConfigIdle /\ SectIdle /\ DocIdle /\ FragIdle /\ MultiIdle
IdleButConfig == SplitIdle /\ RenderIdle /\ PageIdle /\ ConfIdle /\ DedupIdle /\ TextIdle /\ SectIdle /\ DocIdle /\ FragIdle /\ MultiIdle
IdleButSect == SplitIdle /\ RenderIdle /\ PageIdle /\ ConfIdle /\ DedupIdle /\ TextIdle /\ ConfigIdle /\ DocIdle /\ FragIdle /\ MultiIdle
IdleButDoc == SplitIdle /\ RenderIdle /\ PageIdle /\ ConfIdle /\ DedupIdle /\ TextIdle /\ ConfigIdle /\ SectIdle /\ FragIdle /\ MultiIdle
IdleButFrag == SplitIdle /\ RenderIdle /\ PageIdle /\ ConfIdle /\ DedupIdle /\ TextIdle /\ ConfigIdle /\ SectIdle /\ DocIdle /\ MultiIdle
IdleButMulti == SplitIdle /\ RenderIdle /\ PageIdle /\ ConfIdle /\ DedupIdle /\ TextIdle /\ ConfigIdle /\ SectIdle /\ DocIdle /\ FragIdle

notSplit == <<renderVars, pageVars, confVars, dedupVars, textVars, configVars, sectVars, docVars, fragVars, multiVars>>
notRender == <<splitVars, pageVars, confVars, dedupVars, textVars, configVars, sectVars, docVars, fragVars, multiVars>>
notPage == <<splitVars, renderVars, confVars, dedupVars, textVars, configVars, sectVars, docVars, fragVars, multiVars>>
notConf == <<splitVars, renderVars, pageVars, dedupVars, textVars, configVars, sectVars, docVars, fragVars, multiVars>>
notDedup == <<splitVars, renderVars, pageVars, confVars, textVars, configVars, sectVars, docVars, fragVars, multiVars>>
notText == <<splitVars, renderVars, pageVars, confVars, dedupVars, configVars, sectVars, docVars, fragVars, multiVars>>
notConfig == <<splitVars, renderVars, pageVars, confVars, dedupVars, textVars, sectVars, docVars, fragVars, multiVars>>
notSect == <<splitVars, renderVars, pageVars, confVars, dedupVars, textVars, configVars, docVars, fragVars, multiVars>>
notDoc == <<splitVars, renderVars, pageVars, confVars, dedupVars, textVars, configVars, sectVars, fragVars, multiVars>>
notFrag == <<splitVars, renderVars, pageVars, confVars, dedupVars, textVars, configVars, sectVars, docVars, multiVars>>
notMulti == <<splitVars, renderVars, pageVars, confVars, dedupVars, textVars, configVars, sectVars, docVars, fragVars>>

(***************************************************************************)
(* Specification SpecSplit: _split_by_word_groups applied to every line of *)
(* at most MaxWords words over WordVocab and every column count up to      *)
(* MaxTarget.                                                              *)
(***************************************************************************)
MaxWords == 4
MaxTarget == 3

WordVocab == {<<"1", "2">>, <<"U", "N", "e", "t">>, <<"(", "2", "0", "1", "7", ")">>,
              <<"[", "3", "]">>}

RECURSIVE WordLists(_)
WordLists(n) ==
    IF n = 0 THEN {<<>>}
    ELSE LET shorter == WordLists(n - 1)
         IN shorter \cup {Append(ws, w) : ws \in {x \in shorter : Len(x) = n - 1},
                                          w \in WordVocab}

SplitLines == {Join(SP, ws) : ws \in WordLists(MaxWords)}

SplitInit ==
    /\ line \in SplitLines
    /\ target_columns \in 1..MaxTarget
    /\ columns = <<>>
    /\ split_returned = FALSE
    /\ IdleButSplit

SplitByWordGroups ==
    /\ ~split_returned
    /\ target_columns > 0
    /\ columns' = split_by_word_groups(line, target_columns)
    /\ split_returned' = TRUE
    /\ UNCHANGED <<line, target_columns, notSplit>>

SplitNext == SplitByWordGroups

SpecSplit == SplitInit /\ [][SplitNext]_vars

(***************************************************************************)
(* Specification SpecRender: a table of at most MaxRows rows over RowVocab *)
(* is rendered twice by the package renderer and once by the renderer of   *)
(* extractors.py.                                                          *)
(***************************************************************************)
MaxRows == 3

RowVocab ==
    { <<>>,
      << <<"M", "e", "t", "h", "o", "d">>, <<"D", "S", "C">> >>,
      << <<"U", "N", "e", "t">>, <<"0", ".", "8", "9">> >>,
      << <<"R", "e", "s", "N", "e", "t">>, <<"9", "1", ".", "2">>, <<"0", ".", "5">> >>,
      << <<>>, <<>> >>,
      << <<"a", "|", "b">> >>,
      << NoneCell, <<"x">> >> }

RECURSIVE RowLists(_)
RowLists(n) ==
    IF n = 0 THEN {<<>>}
    ELSE LET shorter == RowLists(n - 1)
         IN shorter \cup {Append(rs, r) : rs \in {x \in shorter : Len(x) = n - 1},
                                          r \in RowVocab}

RenderTables ==
    {[data |-> d, region_id |-> 0, confidence |-> [num |-> 9, den |-> 10],
      type |-> <<"b", "b", "o", "x", "_", "g", "r", "i", "d">>] : d \in RowLists(MaxRows)}

RenderInit ==
    /\ table_given \in RenderTables
    /\ table = table_given
    /\ markdown1 = <<>>
    /\ markdown2 = <<>>
    /\ legacy_markdown = <<>>
    /\ render_raised = FALSE
    /\ render_calls = 0
    /\ IdleButRender

\* first call of convert_table_to_markdown(table)
RenderFirst ==
    /\ render_calls = 0
    /\ render_calls' = 1
    /\ IF ConvertRaises(table)
       THEN /\ render_raised' = TRUE
            /\ UNCHANGED markdown1
       ELSE /\ markdown1' = convert_table_to_markdown(table)
            /\ UNCHANGED render_raised
    /\ table' = TableAfterRender(table)
    /\ UNCHANGED <<table_given, markdown2, legacy_markdown, notRender>>

\* second call, on the table as the first call left it
RenderSecond ==
    /\ render_calls = 1
    /\ render_calls' = 2
    /\ IF ConvertRaises(table)
       THEN /\ render_raised' = TRUE
            /\ UNCHANGED markdown2
       ELSE /\ markdown2' = convert_table_to_markdown(table)
            /\ UNCHANGED render_raised
    /\ table' = TableAfterRender(table)
    /\ UNCHANGED <<table_given, markdown1, legacy_markdown, notRender>>

\* the renderer of extractors.py on the table as given
LegacyRender ==
    /\ render_calls = 2
    /\ render_calls' = 3
    /\ IF LegacyConvertRaises(table_given)
       THEN /\ render_raised' = TRUE
            /\ UNCHANGED legacy_markdown
       ELSE /\ legacy_markdown' = LegacyConvertTableToMarkdown(table_given)
            /\ UNCHANGED render_raised
    /\ UNCHANGED <<table_given, table, markdown1, markdown2, notRender>>

RenderNext == RenderFirst \/ RenderSecond \/ LegacyRender

SpecRender == RenderInit /\ [][RenderNext]_vars

(***************************************************************************)
(* Specification SpecPage: a page of at most MaxPageLines lines over       *)
(* LineVocab, with or without the drawing of a grid, goes through          *)
(* extract_tables_from_page, and the converter renders each table          *)
(* returned.                                                               *)
(***************************************************************************)
MaxPageLines == 3

LineVocab ==
    { << [text |-> <<"M", "e", "t", "h", "o", "d">>, x |-> 0, y |-> 0],
         [text |-> <<"D", "S", "C">>, x |-> 50, y |-> 0] >>,
      << [text |-> <<"U", "N", "e", "t">>, x |-> 0, y |-> 20],
         [text |-> <<"0", ".", "8", "9">>, x |-> 50, y |-> 20],
         [text |-> <<"0", ".", "9", "1">>, x |-> 100, y |-> 20] >>,
      << [text |-> <<"0", ".", "8", "5">>, x |-> 50, y |-> 12],
         [text |-> <<"R", "e", "s", "N", "e", "t">>, x |-> 0, y |-> 12] >>,
      << [text |-> <<"U", "N", "e", "t", " ", " ", "0", ".", "8", "9", " ", " ",
                     "0", ".", "9", "1">>, x |-> 0, y |-> 40] >>,
      << [text |-> <<"M", "e", "t", "h", "o", "d", " ", " ", "D", "S", "C", " ", " ",
                     "S", "E">>, x |-> 0, y |-> 30] >>,
      << [text |-> <<"R", "e", "s", "N", "e", "t", " ", " ", "0", ".", "8", "5">>,
          x |-> 0, y |-> 50] >>,
      << [text |-> <<"s", "e", "e", " ", "t", "e", "x", "t">>, x |-> 0, y |-> 45] >> }

RECURSIVE LineLists(_)
LineLists(n) ==
    IF n = 0 THEN {<<>>}
    ELSE LET shorter == LineLists(n - 1)
         IN shorter \cup {Append(ls, l) : ls \in {x \in shorter : Len(x) = n - 1},
                                          l \in LineVocab}

GridDrawing ==
    << [type |-> "l", start |-> <<0, 0>>, end |-> <<100, 0>>],
       [type |-> "l", start |-> <<0, 60>>, end |-> <<100, 60>>],
       [type |-> "l", start |-> <<0, 0>>, end |-> <<0, 60>>],
       [type |-> "l", start |-> <<100, 0>>, end |-> <<100, 60>>] >>

Pages == {[lines |-> ls, drawings |-> ds] : ls \in LineLists(MaxPageLines),
                                             ds \in {<<>>, GridDrawing}}

PageInit ==
    /\ extract_tables \in BOOLEAN
    /\ page \in Pages
    /\ page_num \in {0, 1}
    /\ page_raising \in SUBSET Detectors
    /\ tables = <<>>
    /\ page_returned = FALSE
    /\ rendered = <<>>
    /\ IdleButPage

\* tables = self.table_extractor.extract_tables_from_page(page, page_num)
ExtractTablesFromPage ==
    /\ ~page_returned
    /\ tables' = extract_tables_from_page(extract_tables, page_raising, page, page_num)
    /\ page_returned' = TRUE
    /\ UNCHANGED <<extract_tables, page, page_num, rendered, page_raising, notPage>>

\* for table in tables: markdown_table = convert_table_to_markdown(table)
RenderReturnedTable ==
    /\ page_returned
    /\ Len(rendered) < Len(tables)
    /\ rendered' = Append(rendered, convert_table_to_markdown(tables[Len(rendered) + 1]))
    /\ UNCHANGED <<extract_tables, page, page_num, tables, page_returned, page_raising,
                   notPage>>

PageNext == ExtractTablesFromPage \/ RenderReturnedTable

SpecPage == PageInit /\ [][PageNext]_vars

(***************************************************************************)
(* Specification SpecConfidence: every scorer of a detector applied to     *)
(* table data of at most MaxConfRows rows over ConfRowVocab, to a region   *)
(* of text lines, or to a region of span positions.                        *)
(***************************************************************************)
MaxConfRows == 3

ConfRowVocab ==
    { <<>>,
      << <<"U", "N", "e", "t">>, <<"0", ".", "8", "9">> >>,
      << <<"1", "2", "%">>, <<"7">>, <<"0", ".", "5">> >>,
      << <<"S", "m", "i", "t", "h", " ", "e", "t", " ", "a", "l", ".">>,
         <<"(", "2", "0", "1", "7", ")">>, <<"a", "c", "c", "u", "r", "a", "c", "y">>,
         <<"m", "e", "t", "h", "o", "d">> >>,
      << <<>>, <<" ">> >>,
      << <<"I", "S", "I", "C">> >> }

TextLineVocab ==
    { [text |-> <<"U", "N", "e", "t", " ", " ", "0", ".", "8", "9", " ", " ",
                  "0", ".", "9", "1">>, y |-> 40],
      [text |-> <<"M", "e", "t", "h", "o", "d", " ", " ", "D", "S", "C", " ", " ",
                  "S", "E">>, y |-> 30],
      [text |-> <<"R", "e", "s", "N", "e", "t", " ", " ", "0", ".", "8", "5">>, y |-> 50],
      [text |-> <<"s", "e", "e", " ", "t", "e", "x", "t">>, y |-> 45] }

SpanLineVocab == {<<>>, <<0>>, <<0, 50>>, <<4, 15, 100>>, <<5, 26>>}

RECURSIVE ListsOver(_, _)
ListsOver(V, n) ==
    IF n = 0 THEN {<<>>}
    ELSE LET shorter == ListsOver(V, n - 1)
         IN shorter \cup {Append(q, v) : q \in {x \in shorter : Len(x) = n - 1}, v \in V}

ConfInit ==
    /\ \/ /\ conf_table \in ListsOver(ConfRowVocab, MaxConfRows)
          /\ conf_text_region = <<>>
          /\ conf_span_region = <<>>
       \/ /\ conf_table = <<>>
          /\ conf_text_region \in ListsOver(TextLineVocab, MaxConfRows)
          /\ conf_span_region = <<>>
       \/ /\ conf_table = <<>>
          /\ conf_text_region = <<>>
          /\ conf_span_region \in ListsOver(SpanLineVocab, MaxConfRows)
    /\ confidence = Rat(0, 1)
    /\ scored_by = ""
    /\ IdleButConf

Scored(detector, value) ==
    /\ scored_by = ""
    /\ scored_by' = detector
    /\ confidence' = value
    /\ UNCHANGED <<conf_table, conf_text_region, conf_span_region, notConf>>

\* 'confidence': self._calculate_table_confidence(table_data)  (line 267)
ScoreBBoxGrid == Scored("bbox_grid", calculate_table_confidence(conf_table))

\* 'confidence': self._calculate_alignment_confidence(region)  (line 293)
ScoreTextAlignment ==
    Scored("text_alignment", calculate_alignment_confidence(conf_text_region))

\* 'confidence': 0.9  (line 324)
ScoreMarkedTable == Scored("marked_table", MarkedConfidence)

\* confidence = self._calculate_academic_table_confidence(table_data)
ScoreAcademicText ==
    Scored("academic", calculate_academic_table_confidence(conf_table))

\* extractors.py, _calculate_table_confidence
LegacyScoreTable == Scored("legacy_table", LegacyCalculateTableConfidence(conf_table))

\* extractors.py, _calculate_alignment_confidence
LegacyScoreAlignment ==
    Scored("legacy_alignment", LegacyCalculateAlignmentConfidence(conf_span_region))

ConfNext ==
    \/ ScoreBBoxGrid
    \/ ScoreTextAlignment
    \/ ScoreMarkedTable
    \/ ScoreAcademicText
    \/ LegacyScoreTable
    \/ LegacyScoreAlignment

SpecConfidence == ConfInit /\ [][ConfNext]_vars

(***************************************************************************)
(* Specification SpecDedup: at most MaxCandidates candidates of one page,  *)
(* with confidences from CandidateConfidences and bboxes from              *)
(* CandidateBBoxes, go through _deduplicate_and_filter_tables of the       *)
(* package class and of the class of extractors.py.                        *)
(***************************************************************************)
MaxCandidates == 3

CandidateConfidences == {Rat(6, 10), Rat(8, 10), Rat(9, 10)}

CandidateBBoxes ==
    {<<0, 0, 10, 10>>, <<0, 0, 10, 8>>, <<4, 0, 14, 10>>, <<6, 0, 16, 10>>,
     <<20, 20, 30, 30>>}

\* the candidates of a page, told apart by region_id
CandidateLists ==
    UNION {[1..n -> CandidateConfidences \X CandidateBBoxes] : n \in 0..MaxCandidates}

DedupInit ==
    /\ \E cs \in CandidateLists :
          candidates = [i \in 1..Len(cs) |->
                           [region_id |-> i - 1, page |-> 0,
                            confidence |-> cs[i][1], bbox |-> cs[i][2]]]
    /\ retained = <<>>
    /\ legacy_retained = <<>>
    /\ dedup_done = FALSE
    /\ legacy_dedup_done = FALSE
    /\ IdleButDedup

\* tables = self._deduplicate_and_filter_tables(tables), package class
Deduplicate ==
    /\ ~dedup_done
    /\ retained' = deduplicate_and_filter_tables(candidates)
    /\ dedup_done' = TRUE
    /\ UNCHANGED <<candidates, legacy_retained, legacy_dedup_done, notDedup>>

\* the same call on the class of extractors.py
LegacyDeduplicate ==
    /\ ~legacy_dedup_done
    /\ legacy_retained' = LegacyDeduplicateAndFilterTables(candidates)
    /\ legacy_dedup_done' = TRUE
    /\ UNCHANGED <<candidates, retained, dedup_done, notDedup>>

DedupNext == Deduplicate \/ LegacyDeduplicate

SpecDedup == DedupInit /\ [][DedupNext]_vars

(***************************************************************************)
(* Specification SpecText: a paragraph of the first page, made of at most  *)
(* MaxBlocks blocks of BlockVocab joined with newlines as the converter    *)
(* joins the blocks of a paragraph (converter.py, lines 430-441), goes     *)
(* through extract_tables_from_text; its lines go through the              *)
(* column-structure inference and the row splitter as the lines of one     *)
(* section do.  No block occurs twice in a paragraph.  The                 *)
(* blocks are a table title, a header and two data lines separated by two  *)
(* spaces, three lines that cite a reference before four numbers, and a    *)
(* line of prose.                                                          *)
(***************************************************************************)
MaxBlocks == 3

BlockVocab ==
    { <<"T", "a", "b", "l", "e", " ", "2", ".", " ", "R", "e", "s", "u",
        "l", "t", "s", " ", "o", "n", " ", "I", "S", "I", "C", " ", "2",
        "0", "1", "7">>,
      <<"M", "e", "t", "h", "o", "d", " ", " ", "D", "S", "C", " ", " ",
        "S", "E", " ", " ", "S", "P", " ", " ", "A", "C", "C">>,
      <<"U", "N", "e", "t", " ", " ", "0", ".", "8", "9", " ", " ", "0",
        ".", "9", "1", " ", " ", "0", ".", "9", "5", " ", " ", "0", ".",
        "9", "3", "\n", "R", "e", "s", "N", "e", "t", " ", " ", "0", ".",
        "8", "5", " ", " ", "0", ".", "8", "8", " ", " ", "0", ".", "9",
        "2", " ", " ", "0", ".", "9", "0">>,
      <<"B", "E", "R", "T", " ", "[", "1", "2", "]", " ", "9", "1", ".",
        "2", " ", "8", "8", ".", "4", " ", "9", "0", ".", "1", " ", "8",
        "9", ".", "7">>,
      <<"G", "P", "T", " ", "[", "7", "]", " ", "8", "5", ".", "0", " ",
        "8", "0", ".", "3", " ", "8", "2", ".", "5", " ", "8", "1", ".",
        "9", "\n", "X", "L", "N", "e", "t", " ", "[", "3", "]", " ", "9",
        "0", ".", "0", " ", "8", "7", ".", "5", " ", "8", "8", ".", "1",
        " ", "8", "8", ".", "8">>,
      <<"s", "e", "e", " ", "t", "h", "e", " ", "t", "e", "x", "t">> }

\* the paragraphs: at most MaxBlocks blocks, no block twice
Paragraphs ==
    {Join(<<"\n">>, blocks) :
        blocks \in {q \in ListsOver(BlockVocab, MaxBlocks) :
                       \A i, j \in 1..Len(q) : i # j => q[i] # q[j]}}

TextInit ==
    /\ IdleButText
    /\ paragraph_text \in Paragraphs
    /\ text_page_num = 0
    /\ text_tables = <<>>
    /\ text_returned = FALSE
    /\ inferred_structure = <<>>
    /\ split_rows = <<>>
    /\ structure_returned = FALSE

\* text_tables = self.table_extractor.extract_tables_from_text(paragraph_text,
\* page_num)
ExtractTablesFromText ==
    /\ ~text_returned
    /\ text_tables' = extract_tables_from_text(paragraph_text, text_page_num)
    /\ text_returned' = TRUE
    /\ UNCHANGED <<paragraph_text, text_page_num, inferred_structure, split_rows,
                   structure_returned>>
    /\ UNCHANGED notText

\* lines 696-706: every line split with the structure; no row without one
SplitRows(lines, column_structure) ==
    IF column_structure = <<>> THEN <<>>
    ELSE List([k \in 1..Len(lines) |->
                  parse_table_row_with_structure(lines[k], column_structure)])

\* _analyze_table_column_structure on the lines, then
\* _parse_table_row_with_structure on each of them with the structure found
\* (lines 675 and 696-706)
InferColumnStructure ==
    /\ ~structure_returned
    /\ inferred_structure' =
           analyze_table_column_structure(TextLines(paragraph_text))
    /\ split_rows' = SplitRows(TextLines(paragraph_text), inferred_structure')
    /\ structure_returned' = TRUE
    /\ UNCHANGED <<paragraph_text, text_page_num, text_tables, text_returned>>
    /\ UNCHANGED notText

TextNext == ExtractTablesFromText \/ InferColumnStructure

SpecText == TextInit /\ [][TextNext]_vars

(***************************************************************************)
(* Specification SpecConfig: a configuration supplied by the caller, with  *)
(* a table confidence threshold from -MaxExcess/10 to 1 + MaxExcess/10 or  *)
(* not a number, goes through validate_config, and a TableExtractor is     *)
(* constructed from it.  Nothing in the repository calls validate_config,  *)
(* so the two calls happen in either order or not at all.                  *)
(***************************************************************************)
MaxExcess == 3

Thresholds == {Rat(k, 10) : k \in (0 - MaxExcess)..(10 + MaxExcess)} \cup {NotANumber}

Configs ==
    [enable_ocr : BOOLEAN, detect_scanned_pages : {TRUE},
     intelligent_image_naming : BOOLEAN, ocr_language : {"eng", "fra"},
     table_confidence_threshold : Thresholds, ocr_confidence_threshold : {-1, 60, 101}]

ConfigInit ==
    /\ config_data \in Configs
    /\ config = config_data
    /\ pytesseract_installed \in BOOLEAN
    /\ cv2_installed \in BOOLEAN
    /\ config_validated = FALSE
    /\ config_raised = FALSE
    /\ extractor_threshold = <<>>
    /\ IdleButConfig

\* validate_config(config): the dictionary is changed in place, so what was
\* adjusted before the TypeError of line 247 stays adjusted
ValidateConfig ==
    /\ ~config_validated
    /\ config_validated' = TRUE
    /\ IF config.table_confidence_threshold = NotANumber
       THEN /\ config' = BeforeThresholds(config, pytesseract_installed, cv2_installed)
            /\ config_raised' = TRUE
       ELSE /\ config' = validate_config(config, pytesseract_installed, cv2_installed)
            /\ UNCHANGED config_raised
    /\ UNCHANGED <<config_data, pytesseract_installed, cv2_installed, extractor_threshold>>
    /\ UNCHANGED notConfig

\* TableExtractor(config): __init__ (lines 14-17) reads no key of config
ConstructTableExtractor ==
    /\ extractor_threshold = <<>>
    /\ extractor_threshold' = <<min_table_confidence>>
    /\ UNCHANGED <<config_data, config, pytesseract_installed, cv2_installed,
                   config_validated, config_raised>>
    /\ UNCHANGED notConfig

ConfigNext == ValidateConfig \/ ConstructTableExtractor

SpecConfig == ConfigInit /\ [][ConfigNext]_vars

(***************************************************************************)
(* Specification SpecSections: the lines of a text of at most              *)
(* MaxSectionBlocks blocks go through _find_complete_table_sections, and   *)
(* the sections found through _consolidate_related_table_sections, as in   *)
(* lines 342-346.  The blocks are two numbered titles, two data lines,     *)
(* two citation lines, two lines of eight words, a short line and a long   *)
(* line of prose.                                                          *)
(***************************************************************************)
MaxSectionBlocks == 4

SectionBlocks ==
    { << <<"T", "a", "b", "l", "e", " ", "1", ".", " ", "R", "e", "s", "u", "l", "t", "s">> >>,
      << <<"T", "a", "b", "l", "e", " ", "2", ".", " ", "A", "b", "l", "a", "t", "i", "o", "n">> >>,
      << <<"U", "N", "e", "t", " ", " ", "0", ".", "8", "9", " ", " ", "0", ".", "9", "1">>,
         <<"R", "e", "s", "N", "e", "t", " ", " ", "0", ".", "8", "5", " ", " ", "0", ".", "8", "8">> >>,
      << <<"G", "P", "T", " ", "[", "7", "]", " ", "8", "5", ".", "0", " ", "8", "0", ".", "3">>,
         <<"X", "L", "N", "e", "t", " ", "[", "3", "]", " ", "9", "0", ".", "0", " ", "8", "7", ".", "5">> >>,
      << <<"(", "a", ")", " ", "b", " ", "c", " ", "d", " ", "e", " ", "f", " ", "g", " ", "h">>,
         <<"(", "b", ")", " ", "c", " ", "d", " ", "e", " ", "f", " ", "g", " ", "h", " ", "i">> >>,
      << <<"s", "e", "e", " ", "t", "e", "x", "t">> >>,
      << <<"a", " ", "b", " ", "c", " ", "d", " ", "e", " ", "f", " ", "g", " ", "h", " ", "i",
           " ", "j", " ", "k", " ", "l">> >> }

\* the texts: at most MaxSectionBlocks blocks, no block twice
SectionTexts ==
    {Concat(blocks) :
        blocks \in {q \in ListsOver(SectionBlocks, MaxSectionBlocks) :
                       \A i, j \in 1..Len(q) : i # j => q[i] # q[j]}}

SectInit ==
    /\ IdleButSect
    /\ scan_lines \in SectionTexts
    /\ titled_sections = <<>>
    /\ table_sections = <<>>
    /\ sections_as_returned = <<>>
    /\ consolidated_sections = <<>>
    /\ sect_pc = "start"

\* table_sections = self._find_complete_table_sections(lines)
FindCompleteTableSections ==
    /\ sect_pc = "start"
    /\ titled_sections' = ScanSections(scan_lines, 0, <<>>, <<>>)
    /\ table_sections' = SectionsOrImplicit(scan_lines, titled_sections')
    /\ sections_as_returned' = table_sections'
    /\ sect_pc' = "scanned"
    /\ UNCHANGED <<scan_lines, consolidated_sections>>
    /\ UNCHANGED notSect

\* the heap and the groups when _consolidate_related_table_sections returns
ConsolidationOf(sections) ==
    ConsolidatedInPlace(sections, 1, ContentLinesOf(sections), <<>>, <<>>)

\* consolidated_sections = self._consolidate_related_table_sections(
\* table_sections)
ConsolidateRelatedTableSections ==
    /\ sect_pc = "scanned"
    /\ consolidated_sections' =
           WithContentLines(ConsolidationOf(table_sections).consolidated,
                            ConsolidationOf(table_sections).heap)
    /\ table_sections' =
           SectionsAfterConsolidation(table_sections, ConsolidationOf(table_sections))
    /\ sect_pc' = "consolidated"
    /\ UNCHANGED <<scan_lines, titled_sections, sections_as_returned>>
    /\ UNCHANGED notSect

SectNext == FindCompleteTableSections \/ ConsolidateRelatedTableSections

SpecSections == SectInit /\ [][SectNext]_vars

(***************************************************************************)
(* Specification SpecConsolidation: the same two steps on texts of at most *)
(* MaxTitledBlocks blocks, each a title and two lines that follow it.  The *)
(* titles are two numbered ones and one with a roman numeral; the lines    *)
(* are two data lines, two citation lines or two lines of eight words.     *)
(***************************************************************************)
MaxTitledBlocks == 3

BlockTitles ==
    { <<"T", "a", "b", "l", "e", " ", "1", ".", " ", "R", "e", "s", "u", "l", "t", "s">>,
      <<"T", "a", "b", "l", "e", " ", "I", "I", ".", " ", "A", "b", "l", "a", "t", "i", "o", "n">>,
      <<"T", "a", "b", "l", "e", " ", "3", ".", " ", "S", "e", "t", "t", "i", "n", "g", "s">> }

BlockContents ==
    { << <<"U", "N", "e", "t", " ", " ", "0", ".", "8", "9", " ", " ", "0", ".", "9", "1">>,
         <<"R", "e", "s", "N", "e", "t", " ", " ", "0", ".", "8", "5", " ", " ", "0", ".", "8", "8">> >>,
      << <<"G", "P", "T", " ", "[", "7", "]", " ", "8", "5", ".", "0", " ", "8", "0", ".", "3">>,
         <<"X", "L", "N", "e", "t", " ", "[", "3", "]", " ", "9", "0", ".", "0", " ", "8", "7", ".", "5">> >>,
      << <<"(", "a", ")", " ", "b", " ", "c", " ", "d", " ", "e", " ", "f", " ", "g", " ", "h">>,
         <<"(", "b", ")", " ", "c", " ", "d", " ", "e", " ", "f", " ", "g", " ", "h", " ", "i">> >> }

TitledBlocks == {<<title>> \o content : title \in BlockTitles, content \in BlockContents}

TitledTexts ==
    {Concat(blocks) :
        blocks \in {q \in ListsOver(TitledBlocks, MaxTitledBlocks) :
                       \A i, j \in 1..Len(q) : i # j => q[i] # q[j]}}

ConsolidationInit ==
    /\ IdleButSect
    /\ scan_lines \in TitledTexts
    /\ titled_sections = <<>>
    /\ table_sections = <<>>
    /\ sections_as_returned = <<>>
    /\ consolidated_sections = <<>>
    /\ sect_pc = "start"

SpecConsolidation == ConsolidationInit /\ [][SectNext]_vars

(***************************************************************************)
(* Specification SpecFragments: a page of at most MaxFragmentLines lines   *)
(* over FragmentLines, in some of which a span lacks its bbox, goes        *)
(* through extract_tables_from_page with no detector failing.              *)
(***************************************************************************)
MaxFragmentLines == 3

FragmentLines ==
    { << [text |-> <<"U", "N", "e", "t">>, bbox |-> <<>>],
         [text |-> <<"0", ".", "8", "9">>, bbox |-> <<50, 5, 80, 15>>] >>,
      << [text |-> <<"R", "e", "s", "N", "e", "t">>, bbox |-> <<0, 20, 30, 30>>],
         [text |-> <<"0", ".", "8", "5">>, bbox |-> <<50, 20, 80, 30>>] >>,
      << [text |-> <<"M", "e", "t", "h", "o", "d">>, bbox |-> <<0, 40, 30, 50>>],
         [text |-> <<"D", "S", "C">>, bbox |-> <<50, 40, 80, 50>>] >>,
      << [text |-> <<"U", "N", "e", "t", " ", " ", "0", ".", "8", "9", " ", " ", "0", ".", "9", "1">>, bbox |-> <<>>] >>,
      << [text |-> <<"R", "e", "s", "N", "e", "t", " ", " ", "0", ".", "8", "5", " ", " ", "0", ".", "8", "8">>, bbox |-> <<0, 30, 30, 40>>] >>,
      << [text |-> <<"G", "P", "T", " ", " ", "0", ".", "8", "0", " ", " ", "0", ".", "7", "0">>, bbox |-> <<0, 60, 30, 70>>] >>,
      << [text |-> <<"X", "L", "N", "e", "t">>, bbox |-> <<>>],
         [text |-> <<"0", ".", "5">>, bbox |-> <<>>] >> }

FragmentPages ==
    {[lines |-> ls, drawings |-> <<>>] : ls \in ListsOver(FragmentLines, MaxFragmentLines)}

FragInit ==
    /\ IdleButFrag
    /\ dict_page \in FragmentPages
    /\ fragment_tables = <<>>
    /\ fragments_returned = FALSE

\* tables = self.table_extractor.extract_tables_from_page(page, page_num)
ExtractTablesFromFragments ==
    /\ ~fragments_returned
    /\ fragment_tables' = extract_tables_from_page(TRUE, {}, PageRead(dict_page), 0)
    /\ fragments_returned' = TRUE
    /\ UNCHANGED dict_page
    /\ UNCHANGED notFrag

SpecFragments == FragInit /\ [][ExtractTablesFromFragments]_vars

(***************************************************************************)
(* Specification SpecMultiSpace: at most MaxColumnLines lines of more than *)
(* 5 characters, with gaps of 2 spaces or more at several places or with   *)
(* none, go through _find_multi_space_columns.                             *)
(***************************************************************************)
MaxColumnLines == 3

ColumnLines ==
    { <<"a", " ", " ", "b", " ", " ", "c">>,
      <<"U", "N", "e", "t", " ", " ", "0", ".", "8", "9", " ", " ", "0", ".", "9", "1">>,
      <<"R", "e", "s", "N", "e", "t", " ", " ", "0", ".", "8", "5", " ", " ", "0", ".", "8", "8">>,
      <<"d", "d", "d", "d", " ", "e", "e", "e", "e">>,
      <<"M", "e", "t", "h", "o", "d", " ", " ", " ", " ", "D", "S", "C">>,
      <<"M", "o", "d", "e", "l", " ", " ", " ", " ", " ", " ", " ", " ", " ", " ", " ", "A", "c", "c">> }

MultiInit ==
    /\ IdleButMulti
    /\ column_lines \in ListsOver(ColumnLines, MaxColumnLines)
    /\ multi_space_columns = <<>>
    /\ columns_returned = FALSE

\* multi_space_structure = self._find_multi_space_columns(non_empty_lines)
FindMultiSpaceColumns ==
    /\ ~columns_returned
    /\ multi_space_columns' = find_multi_space_columns(column_lines)
    /\ columns_returned' = TRUE
    /\ UNCHANGED column_lines
    /\ UNCHANGED notMulti

SpecMultiSpace == MultiInit /\ [][FindMultiSpaceColumns]_vars

(***************************************************************************)
(* Specification SpecDocument: the pages of a document of at most          *)
(* MaxDocPages pages go through the table extraction of _process_page      *)
(* (main_converter.py, lines 243-246), one call per page.  The converter   *)
(* takes the pages in the order of range(len(doc)) (line 172); here the    *)
(* calls come in any order.  The pages are an empty page, a page of two    *)
(* rows of spans, a page of three lines of spaced text, a page with both,  *)
(* and a page of one row.                                                  *)
(***************************************************************************)
MaxDocPages == 3

SpanRows ==
    << << [text |-> <<"M", "e", "t", "h", "o", "d">>, x |-> 0, y |-> 0],
          [text |-> <<"D", "S", "C">>, x |-> 50, y |-> 0] >>,
       << [text |-> <<"U", "N", "e", "t">>, x |-> 0, y |-> 20],
          [text |-> <<"0", ".", "8", "9">>, x |-> 50, y |-> 20],
          [text |-> <<"0", ".", "9", "1">>, x |-> 100, y |-> 20] >> >>

SpacedLines ==
    << << [text |-> <<"M", "e", "t", "h", "o", "d", " ", " ", "D", "S", "C", " ", " ",
                      "S", "E">>, x |-> 0, y |-> 30] >>,
       << [text |-> <<"U", "N", "e", "t", " ", " ", "0", ".", "8", "9", " ", " ",
                      "0", ".", "9", "1">>, x |-> 0, y |-> 40] >>,
       << [text |-> <<"R", "e", "s", "N", "e", "t", " ", " ", "0", ".", "8", "5">>,
           x |-> 0, y |-> 50] >> >>

DocPages ==
    { NoPage,
      [lines |-> SpanRows, drawings |-> <<>>],
      [lines |-> SpacedLines, drawings |-> <<>>],
      [lines |-> SpanRows \o SpacedLines, drawings |-> <<>>],
      [lines |-> <<SpanRows[2]>>, drawings |-> <<>>] }

DocInit ==
    /\ IdleButDoc
    /\ doc \in ListsOver(DocPages, MaxDocPages)
    /\ doc_extract_tables \in BOOLEAN
    /\ table_extractor = NewTableExtractor
    /\ page_tables = [n \in 1..Len(doc) |-> <<>>]
    /\ pages_processed = <<>>

\* the tables of a page as they would be if the region ids were counted on
\* the extractor, from one page to the next
TablesOfPage_counted(enabled, doc_page, n) ==
    LET found == extract_tables_from_page(enabled, {}, doc_page, n)
    IN IF ~enabled THEN <<>>
       ELSE [k \in 1..Len(found) |->
                [found[k] EXCEPT !.region_id = @ + Len(Concat(page_tables))]]

\* page_data['tables'] (main_converter.py, lines 243-246)
TablesOfPage(enabled, doc_page, n) ==
    IF ~enabled THEN <<>>
    ELSE extract_tables_from_page(enabled, {}, doc_page, n)

\* _process_page(page, page_num, ...): no statement of the extraction
\* (table_extractor.py, lines 19-46, 249-332 and 1214-1228) assigns an
\* attribute of the extractor
ProcessPage(n) ==
    /\ \A k \in 1..Len(pages_processed) : pages_processed[k] # n
    /\ page_tables' = [page_tables EXCEPT
                          ![n + 1] = TablesOfPage(doc_extract_tables, doc[n + 1], n)]
    /\ pages_processed' = Append(pages_processed, n)
    /\ UNCHANGED <<doc, doc_extract_tables, table_extractor>>
    /\ UNCHANGED notDoc

DocNext == \E n \in 0..(Len(doc) - 1) : ProcessPage(n)

SpecDocument == DocInit /\ [][DocNext]_vars

(***************************************************************************)
(* Specification SpecStructure: the content lines of a section, at most    *)
(* MaxStructureLines of them, go through _analyze_table_column_structure   *)
(* and the row splitter, as in _parse_academic_table_section (lines        *)
(* 675-706).  The lines are two citation lines with single spaces and two  *)
(* with gaps of two spaces, two lines with tabs, two lines of bracketed    *)
(* letters, a line with gaps of two spaces, and two lines of three         *)
(* characters.                                                             *)
(***************************************************************************)
MaxStructureLines == 2

StructureLines ==
    { <<"A", " ", "[", " ", "1", " ", "]", " ", "1", " ", "2", " ", "3", " ",
        "4", " ", "5", " ", "6", " ", "7", " ", "8">>,
      <<"B", " ", "[", " ", "2", " ", "]", " ", "1", " ", "2", " ", "3", " ",
        "4", " ", "5", " ", "6", " ", "7", " ", "8">>,
      <<"A", " ", " ", "[", " ", "1", " ", "]", " ", "1", " ", " ", "2", " ",
        "3", " ", "4", " ", "5", " ", " ", "6", " ", "7", " ", "8">>,
      <<"B", " ", " ", "[", " ", "2", " ", "]", " ", "1", " ", " ", "2", " ",
        "3", " ", "4", " ", "5", " ", " ", "6", " ", "7", " ", "8">>,
      <<"S", "m", "i", "t", "h", " ", "e", "t", " ", "a", "l", ".", "\t", "2",
        "0", "1", "7", "\t", "0", ".", "5", "%">>,
      <<"J", "o", "n", "e", "s", " ", "e", "t", " ", "a", "l", ".", "\t", "2",
        "0", "1", "8", "\t", "0", ".", "7", "%">>,
      <<"(", "a", ")", " ", "(", "b", ")", " ", "(", "c", ")">>,
      <<"(", "d", ")", " ", "(", "e", ")", " ", "(", "f", ")">>,
      <<"U", "N", "e", "t", " ", " ", "0", ".", "8", "9", " ", " ", "0", ".",
        "9", "1">>,
      <<"x", " ", "1">>,
      <<"y", " ", "2">> }

StructureTexts ==
    {Join(<<"\n">>, q) : q \in ListsOver(StructureLines, MaxStructureLines)}

StructureInit ==
    /\ IdleButText
    /\ paragraph_text \in StructureTexts
    /\ text_page_num = 0
    /\ text_tables = <<>>
    /\ text_returned = FALSE
    /\ inferred_structure = <<>>
    /\ split_rows = <<>>
    /\ structure_returned = FALSE

SpecStructure == StructureInit /\ [][InferColumnStructure]_vars

(***************************************************************************)
(* Claims.                                                                 *)
(***************************************************************************)

EmptyRows(t) == \A r \in 1..Len(t.data) : t.data[r] = <<>>

\* C10: for a table whose rows are empty the renderer returns the empty
\* string and raises nothing.
C10_EmptyTableRendersEmpty ==
    EmptyRows(table_given) =>
        /\ ~render_raised
        /\ render_calls >= 1 => markdown1 = <<>>
        /\ render_calls >= 3 => legacy_markdown = <<>>

\* C10 witness: a table of rows without cells went through both renderers.
C10_Witness ==
    /\ render_calls = 3
    /\ table_given.data # <<>>
    /\ EmptyRows(table_given)
    /\ markdown1 = <<>>
    /\ legacy_markdown = <<>>
    /\ ~render_raised

\* the rows of a rendering: its lines that start with a pipe
TableLines(markdown) ==
    SelectSeq(SplitAt(markdown, "\n"), LAMBDA l : l # <<>> /\ l[1] = "|")

\* the number of cells of a rendered row
CellCount(l) == Cardinality({i \in 1..Len(l) : l[i] = "|"}) - 1

\* every row of the rendering has as many cells as its header row
Rectangular(markdown) ==
    LET ls == TableLines(markdown)
    IN \A n \in 1..Len(ls) : CellCount(ls[n]) = CellCount(ls[1])

C2_ConfidenceBounds ==
    scored_by # "" => RatLe(Rat(0, 1), confidence) /\ RatLe(confidence, Rat(1, 1))

\* C2 witness: table data whose cells all hold numbers, where the uncapped
\* numeric factor would be 2, has been scored at exactly 1.
C2_Witness ==
    /\ scored_by = "bbox_grid"
    /\ conf_table # <<>>
    /\ confidence = Rat(1, 1)

\* the area of a bbox, and of the intersection of two
BoxArea(b) == (b[3] - b[1]) * (b[4] - b[2])
IntersectionArea(a, b) ==
    Max2(0, Min2(a[3], b[3]) - Max2(a[1], b[1]))
    * Max2(0, Min2(a[4], b[4]) - Max2(a[2], b[2]))

\* the overlap of two bboxes exceeds 50% of the area of the smaller
OverlapExceedsHalf(a, b) == 2 * IntersectionArea(a, b) > Min2(BoxArea(a), BoxArea(b))

NoTwoOverlap(kept) ==
    \A i, j \in 1..Len(kept) : i # j => ~OverlapExceedsHalf(kept[i].bbox, kept[j].bbox)

IsCitationLine(text_line) ==
    LET words == Split(text_line)
        bracketed == RSeq(<<RBol, RCh("["), RPlus(RSet(Digit)), RCh("]"), REol>>)
        name == RSeq(<<RBol, RPlus(RSet(Alpha)), REol>>)
    IN /\ Len(words) = 6
       /\ ReMatch(name, words[1])
       /\ ReMatch(bracketed, words[2])
       /\ \A k \in 3..6 : is_numerical_value(words[k])

IsCitationCandidate(lines) ==
    Len(lines) = 3 /\ \A k \in 1..3 : IsCitationLine(lines[k])

\* C8: for a candidate of three lines, each a method name, a citation such
\* as [12] written as one word and four numbers, the inference selects the
\* structure academic_citation_numerical with groups of 4 numbers and 2
\* columns, and every line is split into exactly 2 cells.
C8_CitationLinesSplitInTwo ==
    (structure_returned /\ IsCitationCandidate(TextLines(paragraph_text)))
    => /\ inferred_structure # <<>>
       /\ inferred_structure.type = "academic_citation_numerical"
       /\ inferred_structure.numerical_groups # <<>>
       /\ \A n \in 1..Len(inferred_structure.numerical_groups) :
              inferred_structure.numerical_groups[n].group_size = 4
       /\ inferred_structure.column_count = 2
       /\ Len(split_rows) = 3
       /\ \A k \in 1..3 : Len(split_rows[k]) = 2

\* words separated by runs of two or more spaces
IsMultiSpaced(text_line, n) ==
    /\ Len(Split(text_line)) = n
    /\ \A i \in 1..(Len(text_line) - 1) :
           (text_line[i] = " " /\ text_line[i + 1] # " ")
           => (i > 1 /\ text_line[i - 1] = " ")

\* a method name and four decimals
IsDecimalRow(text_line) ==
    LET words == Split(text_line)
        decimal == RSeq(<<RBol, RPlus(RSet(Digit)), RCh("."), RPlus(RSet(Digit)),
                          REol>>)
    IN /\ IsMultiSpaced(text_line, 5)
       /\ ReMatch(RSeq(<<RBol, RPlus(RSet(Alpha)), REol>>), words[1])
       /\ \A k \in 2..5 : ReMatch(decimal, words[k])

TitleLine ==
    <<"T", "a", "b", "l", "e", " ", "2", ".", " ", "R", "e", "s", "u", "l", "t",
      "s", " ", "o", "n", " ", "I", "S", "I", "C", " ", "2", "0", "1", "7">>

HeaderWords ==
    << <<"M", "e", "t", "h", "o", "d">>, <<"D", "S", "C">>, <<"S", "E">>,
       <<"S", "P">>, <<"A", "C", "C">> >>

IsTitledResultsText(lines) ==
    /\ Len(lines) = 4
    /\ lines[1] = TitleLine
    /\ IsMultiSpaced(lines[2], 5) /\ Split(lines[2]) = HeaderWords
    /\ IsDecimalRow(lines[3]) /\ IsDecimalRow(lines[4])

\* C9: for the text made of the title line 'Table 2. Results on ISIC 2017',
\* the header line of Method, DSC, SE, SP and ACC separated by several
\* spaces and two data lines of a method name and four decimals separated
\* by several spaces, extract_tables_from_text returns exactly one table,
\* whose title is the title line, with 3 rows and a confidence of at
\* least 0.6, the structure of its lines being multi_space or positional.
C9_TitledResultsTable ==
    (text_returned /\ IsTitledResultsText(TextLines(paragraph_text)))
    => /\ Len(text_tables) = 1
       /\ text_tables[1].title = TitleLine
       /\ Len(text_tables[1].data) = 3
       /\ RatLe(Rat(6, 10), text_tables[1].confidence)
       /\ LET structure ==
                  analyze_table_column_structure(
                      Tail(TextLines(paragraph_text)))
          IN structure # <<>> /\ structure.type \in {"multi_space", "positional"}

(***************************************************************************)
(* C11.  When a detector fails on a page, extract_tables_from_page still   *)
(* returns: of every detector that did not fail, exactly its candidates of *)
(* confidence at least min_table_confidence are among the tables returned, *)
(* in the detector's order, and no returned table comes from a detector    *)
(* that failed.                                                            *)
(***************************************************************************)
\* the 'type' a detector gives its candidates (lines 263, 289, 320)
DetectorType(d) ==
    CASE d = "bbox_grid" -> <<"b", "b", "o", "x", "_", "g", "r", "i", "d">>
      [] d = "text_alignment" -> <<"t", "e", "x", "t", "_", "a", "l", "i", "g", "n", "m",
                                   "e", "n", "t">>
      [] d = "marked_table" -> <<"m", "a", "r", "k", "e", "d", "_", "t", "a", "b", "l", "e">>

\* what a detector produces on the page when its PyMuPDF call succeeds
CandidatesOf(d) ==
    CASE d = "bbox_grid" -> extract_bbox_tables(page, page_num)
      [] d = "text_alignment" -> extract_alignment_tables(page, page_num)
      [] d = "marked_table" -> extract_marked_tables(page, page_num)

PassingCandidatesOf(d) ==
    SelectSeq(CandidatesOf(d), LAMBDA t : RatLe(min_table_confidence, t.confidence))

ReturnedOf(d) == SelectSeq(tables, LAMBDA t : t.type = DetectorType(d))

C11_FailedDetectorContributesNothing ==
    (page_returned /\ extract_tables) =>
        \A d \in Detectors :
            ReturnedOf(d) = IF d \in page_raising THEN <<>> ELSE PassingCandidatesOf(d)

\* a detector that would have contributed a table fails, and a table of
\* another detector is returned
C11_Witness ==
    /\ page_returned
    /\ extract_tables
    /\ \E d \in page_raising : PassingCandidatesOf(d) # <<>>
    /\ tables # <<>>


(***************************************************************************)
(* C12.  A table confidence threshold outside [0,1] supplied by the caller *)
(* is reported as an error: once validate_config has run or the            *)
(* TableExtractor is constructed, an error was raised and the threshold is *)
(* still the caller's.                                                     *)
(***************************************************************************)
OutsideUnitInterval(threshold) ==
    /\ threshold # NotANumber
    /\ ~(RatLe(Rat(0, 1), threshold) /\ RatLe(threshold, Rat(1, 1)))

C12_InvalidThresholdReported ==
    (/\ OutsideUnitInterval(config_data.table_confidence_threshold)
     /\ (config_validated \/ extractor_threshold # <<>>))
        => (/\ config_raised
            /\ config.table_confidence_threshold = config_data.table_confidence_threshold)


(***************************************************************************)
(* C13.  _consolidate_related_table_sections does not modify the sections  *)
(* it is given: when it has returned, every section of its argument has    *)
(* the content_lines, the title and the description it had before.         *)
(***************************************************************************)
C13_ConsolidationLeavesInput ==
    sect_pc = "consolidated" => table_sections = sections_as_returned


(***************************************************************************)
(* C14.  The tables returned for a page, region ids included, are those a  *)
(* newly constructed extractor returns for that page alone, whichever      *)
(* pages of the document were processed before it; and the extractor's     *)
(* attributes are what the constructor set.                                *)
(***************************************************************************)
\* extract_tables_from_page on a page with nothing processed before
TablesOfPageAlone(n) ==
    IF doc_extract_tables THEN extract_tables_from_page(TRUE, {}, doc[n + 1], n) ELSE <<>>

C15_ReturnedTablesPassFilter ==
    \A k \in 1..Len(text_tables) :
        RatLe(min_table_confidence, text_tables[k].confidence)


(***************************************************************************)
(* C16.  The structure _analyze_table_column_structure returns is that of  *)
(* a strategy found for the lines whose score no other strategy found      *)
(* exceeds, and among the strategies of that score the first in the order  *)
(* academic_citation_numerical, multi_space, positional, tab, pattern; it  *)
(* is word_based only when no strategy is found.                           *)
(***************************************************************************)
\* the lines the strategies see (lines 717-718)
NonEmptyLines == SelectSeq(TextLines(paragraph_text), LAMBDA l : Len(Strip(l)) > 5)

\* the strategies found for lines, each with its score
StrategiesFound(non_empty_lines) ==
    Strategies(
        AcademicStructureOf(SelectSeq(non_empty_lines, LAMBDA l : Contains(l, <<"]">>))),
        find_multi_space_columns(non_empty_lines),
        find_positional_columns(non_empty_lines),
        find_tab_columns(non_empty_lines),
        find_pattern_based_columns(non_empty_lines))

Priority(type) ==
    CASE type = "academic_citation_numerical" -> 1
      [] type = "multi_space" -> 2
      [] type = "positional" -> 3
      [] type = "tab" -> 4
      [] type = "pattern" -> 5
      [] type = "word_based" -> 6

\* the structure is that of the best of the strategies found
IsBestOf(structure, found) ==
    IF found = <<>> THEN structure.type = "word_based"
    ELSE \E n \in 1..Len(found) :
            /\ found[n].structure = structure
            /\ \A m \in 1..Len(found) :
                   \/ found[m].score < found[n].score
                   \/ /\ found[m].score = found[n].score
                      /\ Priority(found[n].structure.type)
                             <= Priority(found[m].structure.type)

C16_BestScoreThenPriority ==
    (structure_returned /\ inferred_structure # <<>>)
        => IsBestOf(inferred_structure, StrategiesFound(NonEmptyLines))

\* two strategies are found with the best score
TiedAtBest(found) ==
    \E n, m \in 1..Len(found) :
        /\ n # m
        /\ found[n].score = found[m].score
        /\ \A k \in 1..Len(found) : found[k].score <= found[n].score

\* two strategies share the best score, and a structure is returned
C16_Witness ==
    /\ structure_returned
    /\ inferred_structure # <<>>
    /\ TiedAtBest(StrategiesFound(NonEmptyLines))

(***************************************************************************)
(* C17.  Whenever the academic_citation_numerical structure is found for   *)
(* the lines, it is the structure returned.                                *)
(***************************************************************************)
AcademicFound(non_empty_lines) ==
    AcademicStructureOf(SelectSeq(non_empty_lines, LAMBDA l : Contains(l, <<"]">>))) # <<>>

C17_AcademicAlwaysSelected ==
    (structure_returned /\ Len(NonEmptyLines) >= 2 /\ AcademicFound(NonEmptyLines))
        => inferred_structure.type = "academic_citation_numerical"

(***************************************************************************)
(* C18.  For content lines of which at least 2 are not blank,              *)
(* _analyze_table_column_structure returns a structure, never None.        *)
(***************************************************************************)
C18_StructureAlwaysReturned ==
    (structure_returned /\ Len(TextLines(paragraph_text)) >= 2)
        => inferred_structure # <<>>


(***************************************************************************)
(* C19.  Every section of the titled scan has a title line that            *)
(* _detect_table_title detects, and for content_lines the run of 2 or more *)
(* lines that follows it in the input: no line of the run is a title, each *)
(* is table content with respect to the lines of the run before it, and    *)
(* the run ends at the end of the input, at a title, or at a line that is  *)
(* not table content with respect to the run.                              *)
(***************************************************************************)
IsTitleLine(text_line) == detect_table_title(ToLower(text_line), text_line) # <<>>

\* the lines of the input after line number first (from 0), as many as run has
FollowsTitle(lines, first, run) ==
    /\ first + 1 + Len(run) <= Len(lines)
    /\ run = SubSeq(lines, first + 2, first + 1 + Len(run))

AcceptedInTurn(run) ==
    \A k \in 1..Len(run) :
        /\ ~IsTitleLine(run[k])
        /\ looks_like_table_content(run[k], SubSeq(run, 1, k - 1))

\* the line after the run, if there is one, is a title or is rejected
EndsTheRun(lines, after, run) ==
    \/ after > Len(lines)
    \/ IsTitleLine(lines[after])
    \/ ~looks_like_table_content(lines[after], run)

IsTitledRun(lines, section) ==
    /\ Len(section.content_lines) >= 2
    /\ section.start_line + 1 <= Len(lines)
    /\ section.title = lines[section.start_line + 1]
    /\ IsTitleLine(section.title)
    /\ FollowsTitle(lines, section.start_line, section.content_lines)
    /\ AcceptedInTurn(section.content_lines)
    /\ EndsTheRun(lines, section.start_line + 2 + Len(section.content_lines),
                  section.content_lines)

C19_TitledSectionsAreRuns ==
    \A n \in 1..Len(titled_sections) : IsTitledRun(scan_lines, titled_sections[n])

\* a section whose run is ended by a line that is rejected, not by a title
\* or the end of the input
C19_Witness ==
    \E n \in 1..Len(titled_sections) :
        LET after == titled_sections[n].start_line + 2
                        + Len(titled_sections[n].content_lines)
        IN /\ after <= Len(scan_lines)
           /\ ~IsTitleLine(scan_lines[after])


(***************************************************************************)
(* C20.  The implicit scan for runs of 3 or more table-row lines is used   *)
(* exactly when no line of the input is detected as a table title.  The    *)
(* scan is used when the titled scan has kept no section (the test of      *)
(* line 535), which also happens when a title is followed by fewer than 2  *)
(* content lines.                                                          *)
(***************************************************************************)
ImplicitScanUsed == titled_sections = <<>>

TitleDetected == \E k \in 1..Len(scan_lines) : IsTitleLine(scan_lines[k])

C20_ImplicitScanIffNoTitle ==
    sect_pc # "start" => (ImplicitScanUsed <=> ~TitleDetected)


(***************************************************************************)
(* C21.  In the consolidation the first section starts a group, and a      *)
(* later section is merged into the group before it exactly when its title *)
(* is not one that _detect_table_title detects, or its lines are similar   *)
(* to the lines of the group (_similar_table_structure), or its first line *)
(* is likely to continue them (_likely_table_continuation).  The code      *)
(* looks for the word table followed by digits in the title (line 1254),   *)
(* so a section titled with a roman numeral is merged as well.             *)
(***************************************************************************)
\* the sections that start a group, by their numbers in the list handed over
GroupStarts ==
    {k \in 1..Len(sections_as_returned) :
        \E n \in 1..Len(consolidated_sections) :
            consolidated_sections[n].start_line = sections_as_returned[k].start_line}

\* the sections from number first to number last
SectionsFromTo(first, last) ==
    [n \in 1..(last - first + 1) |-> sections_as_returned[first + n - 1].content_lines]

\* the lines that the group before section k holds when section k is met
GroupLinesBefore(k) ==
    Concat(SectionsFromTo(SetMax({j \in GroupStarts \cup {1} : j < k}), k - 1))

MergedByTheRule(k) ==
    \/ ~IsTitleLine(sections_as_returned[k].title)
    \/ similar_table_structure(GroupLinesBefore(k), sections_as_returned[k].content_lines)
    \/ likely_table_continuation(GroupLinesBefore(k), sections_as_returned[k].content_lines)

C21_MergedIffRule ==
    sect_pc = "consolidated" =>
        /\ sections_as_returned # <<>> => 1 \in GroupStarts
        /\ \A k \in 2..Len(sections_as_returned) :
               k \notin GroupStarts <=> MergedByTheRule(k)


(***************************************************************************)
(* C22.  Every table that extract_tables_from_text returns has 2 rows or   *)
(* more, 2 columns or more on average and content in 60% of its cells or   *)
(* more, and no table is returned for a section whose parsed rows lack one *)
(* of the three.                                                           *)
(***************************************************************************)
CellsWithContent(rows) ==
    Cardinality({c \in 1..Len(Concat(rows)) : Strip(Concat(rows)[c]) # <<>>})

MeetsRequirements(rows) ==
    /\ Len(rows) >= 2
    /\ Len(Concat(rows)) >= 2 * Len(rows)
    /\ 5 * CellsWithContent(rows) >= 3 * Len(Concat(rows))

\* the sections whose rows extract_tables_from_text parses
TextSections ==
    consolidate_related_table_sections(
        find_complete_table_sections(TextLines(paragraph_text)))

\* section number n has parsed into rows that lack a requirement
IsRejectedCandidate(n) ==
    /\ parse_academic_table_section(TextSections[n]) # <<>>
    /\ ~MeetsRequirements(parse_academic_table_section(TextSections[n]))

C22_ReturnedTablesAreValid ==
    text_returned =>
        /\ \A t \in 1..Len(text_tables) : MeetsRequirements(text_tables[t].data)
        /\ \A n \in 1..Len(TextSections) :
               IsRejectedCandidate(n) =>
                   \A t \in 1..Len(text_tables) : text_tables[t].region_id # n - 1

\* extract_tables_from_text has returned for a text with a section that
\* parses into rows of fewer than 2 columns on average
C22_Witness ==
    /\ text_returned
    /\ \E n \in 1..Len(TextSections) : IsRejectedCandidate(n)


(***************************************************************************)
(* C23.  Every bbox_grid table of the page has rows whose lengths differ   *)
(* by 2 at most, content in half of its cells or more, and a digit in 2    *)
(* cells or more.  _validate_table_structure (lines 1746-1758) asks for    *)
(* 2 rows of which 70% are within 2 columns of the average, and nothing    *)
(* of the content.                                                         *)
(***************************************************************************)
RowLengths(rows) == {Len(rows[r]) : r \in 1..Len(rows)}

CellsWithDigit(rows) ==
    Cardinality({c \in 1..Len(Concat(rows)) :
                    \E i \in 1..Len(Concat(rows)[c]) : Concat(rows)[c][i] \in Digit})

IsCheckedGrid(rows) ==
    /\ SetMax(RowLengths(rows)) - SetMin(RowLengths(rows)) <= 2
    /\ 2 * CellsWithContent(rows) >= Len(Concat(rows))
    /\ CellsWithDigit(rows) >= 2

C23_BboxCandidatesChecked ==
    (page_returned /\ extract_tables) =>
        \A t \in 1..Len(ReturnedOf("bbox_grid")) :
            IsCheckedGrid(ReturnedOf("bbox_grid")[t].data)


(***************************************************************************)
(* C24.  A span without a bbox is left out by the detectors that work on   *)
(* positions: the tables of the page are the tables of the page without    *)
(* such spans.  The detectors read the bbox with a default of [0, 0, 0, 0] *)
(* (lines 1699-1701 and 1807-1808), which puts the span at the origin of   *)
(* the page, in the row or the region of what is there.                    *)
(***************************************************************************)
WithBBox(spans) == SelectSeq(spans, LAMBDA span : span.bbox # <<>>)

WithoutBoxless(dict_page_) ==
    [lines |-> [n \in 1..Len(dict_page_.lines) |-> WithBBox(dict_page_.lines[n])],
     drawings |-> dict_page_.drawings]

C24_BoxlessFragmentSkipped ==
    fragments_returned =>
        fragment_tables =
            extract_tables_from_page(TRUE, {}, PageRead(WithoutBoxless(dict_page)), 0)


(***************************************************************************)
(* C25.  Every position that _find_multi_space_columns returns is the      *)
(* median of a cluster of gap positions that half of the lines or more     *)
(* have a gap in.  The code counts the positions of the cluster (line      *)
(* 864), and one line with two gaps within 4 characters gives two.         *)
(***************************************************************************)
\* the clusters of lines 848-860
PositionClusters ==
    Clustered(Concat([k \in 1..Len(column_lines) |-> GapPositions(column_lines[k])]), <<>>)

ClusterMedian(cluster) == SortedAsc(cluster)[Len(cluster) \div 2 + 1]

\* the lines with a gap at a position of the cluster
LinesOfCluster(cluster) ==
    {k \in 1..Len(column_lines) :
        \E g \in 1..Len(GapPositions(column_lines[k])) :
            \E c \in 1..Len(cluster) : GapPositions(column_lines[k])[g] = cluster[c]}

C25_SeparatorsFromFrequentClusters ==
    (columns_returned /\ multi_space_columns # <<>>) =>
        \A p \in 1..Len(multi_space_columns.positions) :
            \E n \in 1..Len(PositionClusters) :
                /\ ClusterMedian(PositionClusters[n]) = multi_space_columns.positions[p]
                /\ 2 * Cardinality(LinesOfCluster(PositionClusters[n])) >= Len(column_lines)


(***************************************************************************)
(* C26.  The confidence of every text_alignment table of the page is 0.8   *)
(* at most.  _calculate_alignment_confidence (lines 1882-1889) returns the *)
(* _calculate_table_confidence of the rows, which goes up to 1.            *)
(***************************************************************************)
C26_AlignmentConfidenceCapped ==
    (page_returned /\ extract_tables) =>
        \A t \in 1..Len(ReturnedOf("text_alignment")) :
            RatLe(ReturnedOf("text_alignment")[t].confidence, Rat(4, 5))


(***************************************************************************)
(* C27.  The groups that the consolidation returns hold the lines of the   *)
(* sections it was given, in their order, each line once; there are no     *)
(* more groups than sections and none only when there is no section; and   *)
(* a group has the title of the first section merged into it and the lines *)
(* of the sections from that one up to the one that starts the next group. *)
(***************************************************************************)
\* the number of the section that starts group n, and of the one after its
\* last section
StartOfGroup(n) ==
    IF n > Cardinality(GroupStarts) THEN Len(sections_as_returned) + 1
    ELSE Ascending(GroupStarts)[n]

IsGroupOfSections(n) ==
    /\ consolidated_sections[n].title = sections_as_returned[StartOfGroup(n)].title
    /\ consolidated_sections[n].content_lines =
           Concat(SectionsFromTo(StartOfGroup(n), StartOfGroup(n + 1) - 1))

C27_ConsolidationConservesLines ==
    sect_pc = "consolidated" =>
        /\ Concat(ContentLinesOf(consolidated_sections))
               = Concat(ContentLinesOf(sections_as_returned))
        /\ Len(consolidated_sections) <= Len(sections_as_returned)
        /\ consolidated_sections = <<>> <=> sections_as_returned = <<>>
        /\ Cardinality(GroupStarts) = Len(consolidated_sections)
        /\ \A n \in 1..Len(consolidated_sections) : IsGroupOfSections(n)

\* three sections consolidated into two groups
C27_Witness ==
    /\ sect_pc = "consolidated"
    /\ Len(sections_as_returned) = 3
    /\ Len(consolidated_sections) = 2


(***************************************************************************)
(* C28.  The rows that _parse_academic_table_section returns for a section *)
(* are its content lines, one row for each in their order, split with the  *)
(* structure of the section.  The lines before the first of the three      *)
(* leading lines that looks like a header are left out (lines 683-688),    *)
(* and so is a line that splits into no cell (lines 703-706).              *)
(***************************************************************************)
RowsOfAllLines(content_lines) ==
    SplitRows(content_lines, analyze_table_column_structure(content_lines))

C28_OneRowForEachLine ==
    text_returned =>
        \A n \in 1..Len(TextSections) :
            parse_academic_table_section(TextSections[n]) # <<>> =>
                parse_academic_table_section(TextSections[n])
                    = RowsOfAllLines(TextSections[n].content_lines)


(***************************************************************************)
(* C29.  The markdown of a table whose rows all have cells holds one data  *)
(* line for each row after the first when the first row is the header, and *)
(* one for each row when the header is generated.  The rows before the     *)
(* first one with 70% of the columns of the widest are left out of the     *)
(* rendering (lines 72-79).                                                *)
(***************************************************************************)
\* the markdown is an empty line, the caption, an empty line, the header,
\* the separators, the data lines and an empty line (lines 60-62, 125, 140
\* and 173-175)
DataLineCount(markdown) == Len(SplitAt(markdown, "\n")) - 6

C29_EveryRowRendered ==
    (/\ render_calls >= 1
     /\ markdown1 # <<>>
     /\ \A r \in 1..Len(table_given.data) : table_given.data[r] # <<>>) =>
        DataLineCount(markdown1) =
            IF FirstRowIsHeader(table_given.data[1])
            THEN Len(table_given.data) - 1
            ELSE Len(table_given.data)


(***************************************************************************)
(* C30.  The cells that _split_by_word_groups returns for a line with      *)
(* words, the empty ones left out and the others joined with one space,    *)
(* are the words of the line joined with one space: every word is in one   *)
(* cell, in the order of the line.                                         *)
(***************************************************************************)
CellsWithWords(cells) == SelectSeq(cells, LAMBDA cell : cell # <<>>)

C30_WordsConserved ==
    (split_returned /\ Split(line) # <<>>) =>
        Join(SP, CellsWithWords(columns)) = Join(SP, Split(line))

\* a line of more words than columns has been split
C30_Witness ==
    /\ split_returned
    /\ Len(Split(line)) > target_columns
    /\ \E c \in 1..Len(columns) : Len(Split(columns[c])) >= 2

=============================================================================
